---- MODULE Spec2Model ----
(***************************************************************************)
(* A model of the msh single-header libraries: msh_vec_math.h (vectors,    *)
(* matrices, quaternions).                                                 *)
(*                                                                         *)
(* msh_scalar_t values are modelled as exact fractions <<n, d>> in lowest  *)
(* terms with d >= 0.  d = 0 encodes the IEEE-754 non-finite values:       *)
(* <<1,0>> is +inf, <<-1,0>> is -inf and <<0,0>> is NaN.  The arithmetic   *)
(* below is the arithmetic of the reals extended with these values;        *)
(* binary32 rounding and the sign of zero are not represented, so an       *)
(* "equal within epsilon" of the library reads here as exact equality.     *)
(* Matrices are functions over 0..N*N-1 (the data[] array, column-major),  *)
(* vectors and quaternions are records with the fields x, y, z, w.         *)
(***************************************************************************)
EXTENDS Integers, Sequences, FiniteSets

VARIABLES fn, arg, ret, cur, steps

vars == <<fn, arg, ret, cur, steps>>

(***************************************************************************)
(* msh_scalar_t arithmetic                                                 *)
(***************************************************************************)
AbsInt(k) == IF k < 0 THEN -k ELSE k

SignInt(k) == IF k < 0 THEN -1 ELSE IF k > 0 THEN 1 ELSE 0

RECURSIVE GCD(_, _)
GCD(a, b) == IF b = 0 THEN a ELSE GCD(b, a % b)

\* the fraction n/d in lowest terms, denominator >= 0
Frac(n, d) ==
  IF d = 0 THEN <<SignInt(n), 0>>
  ELSE LET g == GCD(AbsInt(n), AbsInt(d))
           s == SignInt(d)
       IN  <<(s * n) \div g, (s * d) \div g>>

\* an integer literal or an int converted to msh_scalar_t
F(k) == <<k, 1>>

\* (float)is_point
ToFloat(k) == F(k)

\* a decimal literal n/d
Q(n, d) == Frac(n, d)

NaN == <<0, 0>>

IsNaN(a) == a = NaN

IsFinite(a) == a[2] # 0

Neg(a) == <<-a[1], a[2]>>

Add(a, b) ==
  IF a[2] = 0 /\ b[2] = 0 THEN (IF a = b THEN a ELSE NaN)
  ELSE IF a[2] = 0 THEN a
  ELSE IF b[2] = 0 THEN b
  ELSE LET g == GCD(a[2], b[2])
       IN  Frac(a[1] * (b[2] \div g) + b[1] * (a[2] \div g), (a[2] \div g) * b[2])

Sub(a, b) == Add(a, Neg(b))

Mul(a, b) ==
  IF a[2] = 0 \/ b[2] = 0 THEN <<SignInt(a[1]) * SignInt(b[1]), 0>>
  ELSE LET g1 == GCD(AbsInt(a[1]), b[2])
           g2 == GCD(AbsInt(b[1]), a[2])
       IN  <<(a[1] \div g1) * (b[1] \div g2), (a[2] \div g2) * (b[2] \div g1)>>

Div(a, b) ==
  IF IsNaN(a) \/ IsNaN(b) THEN NaN
  ELSE IF b[2] = 0 THEN (IF a[2] = 0 THEN NaN ELSE F(0))
  ELSE IF a[2] = 0 THEN <<a[1] * (IF b[1] < 0 THEN -1 ELSE 1), 0>>
  ELSE IF b[1] = 0 THEN <<SignInt(a[1]), 0>>
  ELSE Mul(a, <<SignInt(b[1]) * b[2], AbsInt(b[1])>>)

Lt(a, b) == ~IsNaN(a) /\ ~IsNaN(b) /\ a # b
            /\ IF a[2] = 0 THEN a[1] < 0
               ELSE IF b[2] = 0 THEN b[1] > 0
               ELSE a[1] * b[2] < b[1] * a[2]

Gt(a, b) == Lt(b, a)

Le(a, b) == ~IsNaN(a) /\ ~IsNaN(b) /\ (a = b \/ Lt(a, b))

Fabs(a) == <<AbsInt(a[1]), a[2]>>

\* data[] of a matrix: the C array with indices 0..Len(s)-1
Data(s) == [i \in 0..(Len(s) - 1) |-> s[i + 1]]

(***************************************************************************)
(* Matrix operations (column-major data[])                                  *)
(***************************************************************************)
\* mutant: the operands are exchanged
msh_mat2_mul_exchanged(a, b) ==
  Data(<< Add(Mul(a[0], b[0]), Mul(a[1], b[2])),
          Add(Mul(a[0], b[1]), Mul(a[1], b[3])),
          Add(Mul(a[2], b[0]), Mul(a[3], b[2])),
          Add(Mul(a[2], b[1]), Mul(a[3], b[3])) >>)

msh_mat2_mul(a, b) ==
  Data(<< Add(Mul(b[0], a[0]), Mul(b[1], a[2])),
          Add(Mul(b[0], a[1]), Mul(b[1], a[3])),
          Add(Mul(b[2], a[0]), Mul(b[3], a[2])),
          Add(Mul(b[2], a[1]), Mul(b[3], a[3])) >>)

msh_mat3_mul(a, b) ==
  Data(<< Add(Add(Mul(b[0], a[0]), Mul(b[1], a[3])), Mul(b[2], a[6])),
          Add(Add(Mul(b[0], a[1]), Mul(b[1], a[4])), Mul(b[2], a[7])),
          Add(Add(Mul(b[0], a[2]), Mul(b[1], a[5])), Mul(b[2], a[8])),
          Add(Add(Mul(b[3], a[0]), Mul(b[4], a[3])), Mul(b[5], a[6])),
          Add(Add(Mul(b[3], a[1]), Mul(b[4], a[4])), Mul(b[5], a[7])),
          Add(Add(Mul(b[3], a[2]), Mul(b[4], a[5])), Mul(b[5], a[8])),
          Add(Add(Mul(b[6], a[0]), Mul(b[7], a[3])), Mul(b[8], a[6])),
          Add(Add(Mul(b[6], a[1]), Mul(b[7], a[4])), Mul(b[8], a[7])),
          Add(Add(Mul(b[6], a[2]), Mul(b[7], a[5])), Mul(b[8], a[8])) >>)

msh_mat4_mul(a, b) ==
  Data(<< Add(Add(Add(Mul(b[0], a[0]), Mul(b[1], a[4])), Mul(b[2], a[8])), Mul(b[3], a[12])),
          Add(Add(Add(Mul(b[0], a[1]), Mul(b[1], a[5])), Mul(b[2], a[9])), Mul(b[3], a[13])),
          Add(Add(Add(Mul(b[0], a[2]), Mul(b[1], a[6])), Mul(b[2], a[10])), Mul(b[3], a[14])),
          Add(Add(Add(Mul(b[0], a[3]), Mul(b[1], a[7])), Mul(b[2], a[11])), Mul(b[3], a[15])),
          Add(Add(Add(Mul(b[4], a[0]), Mul(b[5], a[4])), Mul(b[6], a[8])), Mul(b[7], a[12])),
          Add(Add(Add(Mul(b[4], a[1]), Mul(b[5], a[5])), Mul(b[6], a[9])), Mul(b[7], a[13])),
          Add(Add(Add(Mul(b[4], a[2]), Mul(b[5], a[6])), Mul(b[6], a[10])), Mul(b[7], a[14])),
          Add(Add(Add(Mul(b[4], a[3]), Mul(b[5], a[7])), Mul(b[6], a[11])), Mul(b[7], a[15])),
          Add(Add(Add(Mul(b[8], a[0]), Mul(b[9], a[4])), Mul(b[10], a[8])), Mul(b[11], a[12])),
          Add(Add(Add(Mul(b[8], a[1]), Mul(b[9], a[5])), Mul(b[10], a[9])), Mul(b[11], a[13])),
          Add(Add(Add(Mul(b[8], a[2]), Mul(b[9], a[6])), Mul(b[10], a[10])), Mul(b[11], a[14])),
          Add(Add(Add(Mul(b[8], a[3]), Mul(b[9], a[7])), Mul(b[10], a[11])), Mul(b[11], a[15])),
          Add(Add(Add(Mul(b[12], a[0]), Mul(b[13], a[4])), Mul(b[14], a[8])), Mul(b[15], a[12])),
          Add(Add(Add(Mul(b[12], a[1]), Mul(b[13], a[5])), Mul(b[14], a[9])), Mul(b[15], a[13])),
          Add(Add(Add(Mul(b[12], a[2]), Mul(b[13], a[6])), Mul(b[14], a[10])), Mul(b[15], a[14])),
          Add(Add(Add(Mul(b[12], a[3]), Mul(b[13], a[7])), Mul(b[14], a[11])), Mul(b[15], a[15])) >>)

msh_mat2_vec2_mul(m, v) ==
  [ x |-> Add(Mul(m[0], v.x), Mul(m[2], v.y)),
    y |-> Add(Mul(m[1], v.x), Mul(m[3], v.y)) ]

msh_mat3_vec3_mul(m, v) ==
  [ x |-> Add(Add(Mul(m[0], v.x), Mul(m[3], v.y)), Mul(m[6], v.z)),
    y |-> Add(Add(Mul(m[1], v.x), Mul(m[4], v.y)), Mul(m[7], v.z)),
    z |-> Add(Add(Mul(m[2], v.x), Mul(m[5], v.y)), Mul(m[8], v.z)) ]

msh_mat4_vec3_mul(m, v, is_point) ==
  [ x |-> Add(Add(Add(Mul(m[0], v.x), Mul(m[4], v.y)), Mul(m[8], v.z)), Mul(ToFloat(is_point), m[12])),
    y |-> Add(Add(Add(Mul(m[1], v.x), Mul(m[5], v.y)), Mul(m[9], v.z)), Mul(ToFloat(is_point), m[13])),
    z |-> Add(Add(Add(Mul(m[2], v.x), Mul(m[6], v.y)), Mul(m[10], v.z)), Mul(ToFloat(is_point), m[14])) ]

msh_mat4_vec4_mul(m, v) ==
  [ x |-> Add(Add(Add(Mul(m[0], v.x), Mul(m[4], v.y)), Mul(m[8], v.z)), Mul(m[12], v.w)),
    y |-> Add(Add(Add(Mul(m[1], v.x), Mul(m[5], v.y)), Mul(m[9], v.z)), Mul(m[13], v.w)),
    z |-> Add(Add(Add(Mul(m[2], v.x), Mul(m[6], v.y)), Mul(m[10], v.z)), Mul(m[14], v.w)),
    w |-> Add(Add(Add(Mul(m[3], v.x), Mul(m[7], v.y)), Mul(m[11], v.z)), Mul(m[15], v.w)) ]

msh_mat2_trace(m) ==
  Add(m[0], m[2])

msh_mat3_trace(m) ==
  Add(Add(m[0], m[4]), m[8])

msh_mat4_trace(m) ==
  Add(Add(Add(m[0], m[5]), m[10]), m[15])

msh_mat2_determinant(m) ==
  Sub(Mul(m[0], m[3]), Mul(m[2], m[1]))

\* mutant: the middle cofactor, already negated, is subtracted
msh_mat3_determinant_twice_negated(m, C) ==
  Add(Sub(Mul(m[0], C[0]), Mul(m[1], C[1])), Mul(m[2], C[2]))

msh_mat3_determinant_from_C(m, C) ==
  Add(Add(Mul(m[0], C[0]), Mul(m[1], C[1])), Mul(m[2], C[2]))

msh_mat3_determinant(m) ==
  msh_mat3_determinant_from_C(m, Data(<< Sub(Mul(m[4], m[8]), Mul(m[5], m[7])),
                                         Sub(Mul(m[5], m[6]), Mul(m[3], m[8])),
                                         Sub(Mul(m[3], m[7]), Mul(m[4], m[6])) >>))

msh_mat4_determinant_from_C(m, coeffs, C) ==
  Add(Add(Add(Mul(m[0], C[0]), Mul(m[4], C[1])), Mul(m[8], C[2])), Mul(m[12], C[3]))

msh_mat4_determinant_from_coeffs(m, coeffs) ==
  msh_mat4_determinant_from_C(m, coeffs, Data(<< Add(Sub(Mul(m[5], coeffs[0]), Mul(m[9], coeffs[3])), Mul(m[13], coeffs[1])),
                                                 Sub(Sub(Mul(m[9], coeffs[5]), Mul(m[1], coeffs[0])), Mul(m[13], coeffs[4])),
                                                 Add(Sub(Mul(m[1], coeffs[3]), Mul(m[5], coeffs[5])), Mul(m[13], coeffs[2])),
                                                 Sub(Sub(Mul(m[5], coeffs[4]), Mul(m[9], coeffs[2])), Mul(m[1], coeffs[1])) >>))

msh_mat4_determinant(m) ==
  msh_mat4_determinant_from_coeffs(m, Data(<< Sub(Mul(m[10], m[15]), Mul(m[14], m[11])),
                                              Sub(Mul(m[6], m[11]), Mul(m[10], m[7])),
                                              Sub(Mul(m[2], m[7]), Mul(m[6], m[3])),
                                              Sub(Mul(m[6], m[15]), Mul(m[14], m[7])),
                                              Sub(Mul(m[2], m[11]), Mul(m[10], m[3])),
                                              Sub(Mul(m[2], m[15]), Mul(m[14], m[3])) >>))

\* mutant: the diagonal entries are not swapped
msh_mat2_inverse_unswapped(m, denom) ==
  Data(<< Mul(m[0], denom),
          Mul(Neg(m[1]), denom),
          Mul(Neg(m[2]), denom),
          Mul(m[3], denom) >>)

msh_mat2_inverse_from_denom(m, denom) ==
  Data(<< Mul(m[3], denom),
          Mul(Neg(m[1]), denom),
          Mul(Neg(m[2]), denom),
          Mul(m[0], denom) >>)

msh_mat2_inverse(m) ==
  msh_mat2_inverse_from_denom(m, Div(F(1), Sub(Mul(m[0], m[3]), Mul(m[2], m[1]))))

msh_mat3_inverse_from_denom(m, C, denom) ==
  Data(<< Mul(denom, C[0]),
          Mul(denom, C[1]),
          Mul(denom, C[2]),
          Mul(denom, C[3]),
          Mul(denom, C[4]),
          Mul(denom, C[5]),
          Mul(denom, C[6]),
          Mul(denom, C[7]),
          Mul(denom, C[8]) >>)

msh_mat3_inverse_from_C(m, C) ==
  msh_mat3_inverse_from_denom(m, C, Div(F(1), Add(Add(Mul(m[0], C[0]), Mul(m[3], C[1])), Mul(m[6], C[2]))))

msh_mat3_inverse(m) ==
  msh_mat3_inverse_from_C(m, Data(<< Sub(Mul(m[4], m[8]), Mul(m[7], m[5])),
                                     Sub(Mul(m[7], m[2]), Mul(m[1], m[8])),
                                     Sub(Mul(m[1], m[5]), Mul(m[4], m[2])),
                                     Sub(Mul(m[6], m[5]), Mul(m[3], m[8])),
                                     Sub(Mul(m[0], m[8]), Mul(m[6], m[2])),
                                     Sub(Mul(m[3], m[2]), Mul(m[0], m[5])),
                                     Sub(Mul(m[3], m[7]), Mul(m[6], m[4])),
                                     Sub(Mul(m[6], m[1]), Mul(m[0], m[7])),
                                     Sub(Mul(m[0], m[4]), Mul(m[3], m[1])) >>))

msh_mat4_inverse_from_denom(m, dets, C_lo, dets_2, C, denom) ==
  Data(<< Mul(denom, C[0]),
          Mul(denom, C[1]),
          Mul(denom, C[2]),
          Mul(denom, C[3]),
          Mul(denom, C[4]),
          Mul(denom, C[5]),
          Mul(denom, C[6]),
          Mul(denom, C[7]),
          Mul(denom, C[8]),
          Mul(denom, C[9]),
          Mul(denom, C[10]),
          Mul(denom, C[11]),
          Mul(denom, C[12]),
          Mul(denom, C[13]),
          Mul(denom, C[14]),
          Mul(denom, C[15]) >>)

msh_mat4_inverse_from_C(m, dets, C_lo, dets_2, C) ==
  msh_mat4_inverse_from_denom(m, dets, C_lo, dets_2, C, Div(F(1), Add(Add(Add(Mul(m[0], C[0]), Mul(m[4], C[1])), Mul(m[8], C[2])), Mul(m[12], C[3]))))

msh_mat4_inverse_from_dets_2(m, dets, C_lo, dets_2) ==
  msh_mat4_inverse_from_C(m, dets, C_lo, dets_2, Data(C_lo \o
                                                   << Add(Sub(Mul(m[7], dets_2[0]), Mul(m[11], dets_2[3])), Mul(m[15], dets_2[1])),
                                                      Sub(Sub(Mul(m[11], dets_2[5]), Mul(m[3], dets_2[0])), Mul(m[15], dets_2[4])),
                                                      Add(Sub(Mul(m[3], dets_2[3]), Mul(m[7], dets_2[5])), Mul(m[15], dets_2[2])),
                                                      Sub(Sub(Mul(m[7], dets_2[4]), Mul(m[3], dets_2[1])), Mul(m[11], dets_2[2])),
                                                      Sub(Sub(Mul(m[10], dets_2[3]), Mul(m[6], dets_2[0])), Mul(m[14], dets_2[1])),
                                                      Add(Sub(Mul(m[2], dets_2[0]), Mul(m[10], dets_2[5])), Mul(m[14], dets_2[4])),
                                                      Sub(Sub(Mul(m[6], dets_2[5]), Mul(m[2], dets_2[3])), Mul(m[14], dets_2[2])),
                                                      Add(Sub(Mul(m[2], dets_2[1]), Mul(m[6], dets_2[4])), Mul(m[10], dets_2[2])) >>))

msh_mat4_inverse_from_C_lo(m, dets, C_lo) ==
  msh_mat4_inverse_from_dets_2(m, dets, C_lo, Data(<< Sub(Mul(m[8], m[13]), Mul(m[12], m[9])),
                                                      Sub(Mul(m[4], m[9]), Mul(m[8], m[5])),
                                                      Sub(Mul(m[0], m[5]), Mul(m[4], m[1])),
                                                      Sub(Mul(m[4], m[13]), Mul(m[12], m[5])),
                                                      Sub(Mul(m[0], m[9]), Mul(m[8], m[1])),
                                                      Sub(Mul(m[0], m[13]), Mul(m[12], m[1])) >>))

msh_mat4_inverse_from_dets(m, dets) ==
  msh_mat4_inverse_from_C_lo(m, dets, << Add(Sub(Mul(m[5], dets[0]), Mul(m[9], dets[3])), Mul(m[13], dets[1])),
                                         Sub(Sub(Mul(m[9], dets[5]), Mul(m[1], dets[0])), Mul(m[13], dets[4])),
                                         Add(Sub(Mul(m[1], dets[3]), Mul(m[5], dets[5])), Mul(m[13], dets[2])),
                                         Sub(Sub(Mul(m[5], dets[4]), Mul(m[9], dets[2])), Mul(m[1], dets[1])),
                                         Sub(Sub(Mul(m[8], dets[3]), Mul(m[4], dets[0])), Mul(m[12], dets[1])),
                                         Add(Sub(Mul(m[0], dets[0]), Mul(m[8], dets[5])), Mul(m[12], dets[4])),
                                         Sub(Sub(Mul(m[4], dets[5]), Mul(m[0], dets[3])), Mul(m[12], dets[2])),
                                         Add(Sub(Mul(m[0], dets[1]), Mul(m[4], dets[4])), Mul(m[8], dets[2])) >>)

msh_mat4_inverse(m) ==
  msh_mat4_inverse_from_dets(m, Data(<< Sub(Mul(m[10], m[15]), Mul(m[14], m[11])),
                                        Sub(Mul(m[6], m[11]), Mul(m[10], m[7])),
                                        Sub(Mul(m[2], m[7]), Mul(m[6], m[3])),
                                        Sub(Mul(m[6], m[15]), Mul(m[14], m[7])),
                                        Sub(Mul(m[2], m[11]), Mul(m[10], m[3])),
                                        Sub(Mul(m[2], m[15]), Mul(m[14], m[3])) >>))

(***************************************************************************)
(* Dispatch on the dimension N of msh_matN_* (N = 2, 3, 4)                 *)
(***************************************************************************)
Dim(a) == CHOOSE n \in 2..4 : DOMAIN a = 0..(n * n - 1)

\* an integer matrix from its data[] initialiser
Mat(s) == Data([i \in 1..Len(s) |-> F(s[i])])

msh_mat2_identity == Mat(<<1, 0, 0, 1>>)

msh_mat3_identity == Mat(<<1, 0, 0, 0, 1, 0, 0, 0, 1>>)

msh_mat4_identity_as_zeros == Mat(<<0, 0, 0, 0, 0, 0, 0, 0, 0, 0, 0, 0, 0, 0, 0, 0>>)

msh_mat4_identity == Mat(<<1, 0, 0, 0, 0, 1, 0, 0, 0, 0, 1, 0, 0, 0, 0, 1>>)

mat_identity(n) ==
  CASE n = 2 -> msh_mat2_identity [] n = 3 -> msh_mat3_identity [] n = 4 -> msh_mat4_identity

mat_mul(a, b) ==
  CASE Dim(a) = 2 -> msh_mat2_mul(a, b)
    [] Dim(a) = 3 -> msh_mat3_mul(a, b)
    [] Dim(a) = 4 -> msh_mat4_mul(a, b)

mat_vec_mul(a, v) ==
  CASE Dim(a) = 2 -> msh_mat2_vec2_mul(a, v)
    [] Dim(a) = 3 -> msh_mat3_vec3_mul(a, v)
    [] Dim(a) = 4 -> msh_mat4_vec4_mul(a, v)

mat_trace(a) ==
  CASE Dim(a) = 2 -> msh_mat2_trace(a)
    [] Dim(a) = 3 -> msh_mat3_trace(a)
    [] Dim(a) = 4 -> msh_mat4_trace(a)

mat_determinant(a) ==
  CASE Dim(a) = 2 -> msh_mat2_determinant(a)
    [] Dim(a) = 3 -> msh_mat3_determinant(a)
    [] Dim(a) = 4 -> msh_mat4_determinant(a)

mat_inverse(a) ==
  CASE Dim(a) = 2 -> msh_mat2_inverse(a)
    [] Dim(a) = 3 -> msh_mat3_inverse(a)
    [] Dim(a) = 4 -> msh_mat4_inverse(a)

(***************************************************************************)
(* Inputs of the matrix operations                                         *)
(***************************************************************************)
\* longest chain of msh_matN_mul calls a caller composes
MaxSteps == 2

\* largest factor of a column scaling
MaxScale == 2

\* largest magnitude of an entry of a composed integer matrix
MaxEntry == 8

\* largest is_point flag passed to msh_mat4_vec3_mul
MaxIsPoint == 2

msh_vec2(x, y) == [x |-> F(x), y |-> F(y)]

msh_vec3(x, y, z) == [x |-> F(x), y |-> F(y), z |-> F(z)]

msh_vec4(x, y, z, w) == [x |-> F(x), y |-> F(y), z |-> F(z), w |-> F(w)]

VecInputs(n) ==
  CASE n = 2 -> {msh_vec2(1, 0), msh_vec2(0, 1), msh_vec2(1, 2), msh_vec2(-2, 3)}
    [] n = 3 -> {msh_vec3(1, 0, 0), msh_vec3(0, 1, 0), msh_vec3(0, 0, 1),
                 msh_vec3(1, 2, 3), msh_vec3(-1, 1, 2)}
    [] n = 4 -> {msh_vec4(1, 0, 0, 0), msh_vec4(0, 1, 0, 0), msh_vec4(0, 0, 1, 0),
                 msh_vec4(0, 0, 0, 1), msh_vec4(1, 2, 3, 1), msh_vec4(2, -1, 1, 3)}

\* the matrices a caller starts from
MatSeeds ==
  { msh_mat2_identity, Mat(<<2, 0, 0, 3>>), Mat(<<1, 2, 3, 4>>), Mat(<<1, 2, 2, 4>>),
    msh_mat3_identity, Mat(<<1, 2, 3, 0, 1, 4, 5, 6, 0>>),
    Mat(<<2, -1, 0, -1, 2, -1, 0, -1, 2>>), Mat(<<0, 1, 0, 0, 0, 1, 1, 0, 0>>),
    msh_mat4_identity, Mat(<<1, 0, 0, 0, 0, 1, 0, 0, 0, 0, 1, 0, 1, 2, 3, 1>>),
    Mat(<<1, 1, 0, 2, 0, 1, 1, 0, 2, 0, 1, 1, 1, 2, 0, 1>>),
    Mat(<<0, 0, 1, 0, 1, 0, 0, 0, 0, 0, 0, 1, 0, 1, 0, 0>>) }

\* identity with entry (row i, column j) set to s
Elementary(n, i, j, s) == [mat_identity(n) EXCEPT ![j * n + i] = F(s)]

\* the second operand of a composition: a shear, a scaling of column 0, or a seed
MatOperands(n) ==
  { Elementary(n, i, (i + 1) % n, 1) : i \in 0..(n - 1) }
    \cup { Elementary(n, 0, 0, s) : s \in (-1..MaxScale) \ {1} }
    \cup { s \in MatSeeds : Dim(s) = n /\ s # mat_identity(n) }

EntriesWithin(a, bound) == \A i \in DOMAIN a : a[i][2] = 1 /\ AbsInt(a[i][1]) <= bound

(***************************************************************************)
(* sqrt, acosf and sin of <math.h>.  sqrt is exact on the squares of       *)
(* fractions, the only arguments the inputs below lead to.  An angle is    *)
(* kept as the value acosf returned it for: [cos |-> d] is acosf(d).       *)
(***************************************************************************)
\* the least s >= r with s * s >= k, found in strides of 64 and then of 1
RECURSIVE IntSqrtFrom(_, _)
IntSqrtFrom(k, r) ==
  IF r * r >= k THEN r
  ELSE IF r < 46000 /\ (r + 64) * (r + 64) < k THEN IntSqrtFrom(k, r + 64)
  ELSE IntSqrtFrom(k, r + 1)

\* a finite fraction whose square root is a fraction
IsSquare(a) ==
  /\ a[2] > 0 /\ a[1] >= 0
  /\ IntSqrtFrom(a[1], 0) * IntSqrtFrom(a[1], 0) = a[1]
  /\ IntSqrtFrom(a[2], 0) * IntSqrtFrom(a[2], 0) = a[2]

Sqrt(a) ==
  IF IsNaN(a) \/ a[1] < 0 THEN NaN
  ELSE IF a[2] = 0 THEN a
  ELSE << CHOOSE r \in {IntSqrtFrom(a[1], 0)} : r * r = a[1],
          CHOOSE r \in {IntSqrtFrom(a[2], 0)} : r * r = a[2] >>

\* the largest s with s*s dividing k (k > 0)
RECURSIVE SquarePartFrom(_, _)
SquarePartFrom(k, s) == IF k % (s * s) = 0 THEN s ELSE SquarePartFrom(k, s - 1)

SquarePart(k) == SquarePartFrom(k, IntSqrtFrom(k, 0))

\* sqrt of a fraction a >= 0 as c * sqrt(f), c a fraction and f a square-free integer
Radical(a) ==
  IF a[1] = 0 THEN [c |-> F(0), f |-> 1]
  ELSE [c |-> Frac(SquarePart(a[1]),
                   SquarePart(a[2]) * (a[2] \div (SquarePart(a[2]) * SquarePart(a[2])))),
        f |-> (a[1] \div (SquarePart(a[1]) * SquarePart(a[1])))
                * (a[2] \div (SquarePart(a[2]) * SquarePart(a[2])))]

\* acosf(d) is NaN for a NaN and outside [-1, 1]
acosf(d) == IF IsNaN(d) \/ Gt(Fabs(d), F(1)) THEN [cos |-> NaN] ELSE [cos |-> d]

\* acosf(1 - 2^-24) = 3.4527e-4 is the least non-zero value acosf returns
MinAcosf == Q(345, 1000000)

\* a lower bound of fabs(a) that is exact at 0
FabsAngle(a) == IF IsNaN(a.cos) THEN NaN ELSE IF a.cos = F(1) THEN F(0) ELSE MinAcosf

\* sin((float)pi) = -8.742278e-8: acosf(-1) is the binary32 value next to pi
SinOfFloatPi == Q(-1, 11438396)

\* sin(a * k) as c * sqrt(f), for the multiples k = 0, 1/2 and 1 of an angle a
SinOfMultiple(a, k) ==
  CASE k = F(0) -> [c |-> F(0), f |-> 1]
    [] k = F(1) /\ a.cos = F(-1) -> [c |-> SinOfFloatPi, f |-> 1]
    [] k = F(1) /\ a.cos # F(-1) -> Radical(Sub(F(1), Mul(a.cos, a.cos)))
    [] k = Q(1, 2) -> Radical(Div(Sub(F(1), a.cos), F(2)))

\* the quotient of two such values where it is a fraction
RadicalQuotient(s, t) ==
  IF s.c = F(0) /\ t.c # F(0) THEN F(0)
  ELSE CHOOSE r \in {Div(s.c, t.c)} : s.f = t.f

SinQuotientIsFraction(a, k) ==
  /\ k \in {F(0), Q(1, 2), F(1)}
  /\ \/ SinOfMultiple(a, k).c = F(0)
     \/ SinOfMultiple(a, k).f = SinOfMultiple(a, F(1)).f

(***************************************************************************)
(* Vector operations the quaternions use                                   *)
(***************************************************************************)
msh_vec3_scalar_mul(v, s) == [x |-> Mul(v.x, s), y |-> Mul(v.y, s), z |-> Mul(v.z, s)]

(***************************************************************************)
(* Quaternion operations: a quaternion is [x, y, z, w]; its im view is     *)
(* (x, y, z) and its re view is w                                          *)
(***************************************************************************)
msh_quat(x, y, z, w) == [x |-> x, y |-> y, z |-> z, w |-> w]

msh_quat_identity == msh_quat(F(0), F(0), F(0), F(1))

\* a quaternion from its im and re views
ImRe(im, re) == [x |-> im.x, y |-> im.y, z |-> im.z, w |-> re]

msh_quat_add(a, b) ==
  msh_quat(Add(a.x, b.x), Add(a.y, b.y), Add(a.z, b.z), Add(a.w, b.w))

msh_quat_mul(a, b) ==
  msh_quat(Sub(Add(Add(Mul(a.w, b.x), Mul(a.x, b.w)), Mul(a.y, b.z)), Mul(a.z, b.y)),
           Sub(Add(Add(Mul(a.w, b.y), Mul(a.y, b.w)), Mul(a.z, b.x)), Mul(a.x, b.z)),
           Sub(Add(Add(Mul(a.w, b.z), Mul(a.z, b.w)), Mul(a.x, b.y)), Mul(a.y, b.x)),
           Sub(Sub(Sub(Mul(a.w, b.w), Mul(a.x, b.x)), Mul(a.y, b.y)), Mul(a.z, b.z)))

msh_quat_scalar_mul(v, s) == ImRe(msh_vec3_scalar_mul(v, s), Mul(v.w, s))

msh_quat_dot(a, b) ==
  Add(Add(Add(Mul(a.x, b.x), Mul(a.y, b.y)), Mul(a.z, b.z)), Mul(a.w, b.w))

msh_quat_norm(q) ==
  Sqrt(Add(Add(Add(Mul(q.x, q.x), Mul(q.y, q.y)), Mul(q.z, q.z)), Mul(q.w, q.w)))

msh_quat_norm_sq(q) ==
  Add(Add(Add(Mul(q.x, q.x), Mul(q.y, q.y)), Mul(q.z, q.z)), Mul(q.w, q.w))

msh_quat_normalize(q) ==
  LET denom == Div(F(1), msh_quat_norm(q))
  IN  ImRe(msh_vec3_scalar_mul(q, denom), Mul(q.w, denom))

msh_quat_conjugate(q) == ImRe([x |-> Neg(q.x), y |-> Neg(q.y), z |-> Neg(q.z)], q.w)

\* o starts as {0, 0, 0, 0}; o.w *= denom scales that 0
msh_quat_inverse(q) ==
  LET o == msh_quat(F(0), F(0), F(0), F(0))
      denom == Div(F(1), msh_quat_norm_sq(q))
  IN  msh_quat(Mul(Neg(q.x), denom), Mul(Neg(q.y), denom), Mul(Neg(q.z), denom),
               Mul(o.w, denom))

msh_quat_lerp_unweighted(q, r, t) ==
  msh_quat(Add(Mul(q.x, t), Mul(r.x, t)), Add(Mul(q.y, t), Mul(r.y, t)),
           Add(Mul(q.z, t), Mul(r.z, t)), Add(Mul(q.w, t), Mul(r.w, t)))

msh_quat_lerp(q, r, t) ==
  msh_quat(Add(Mul(q.x, Sub(F(1), t)), Mul(r.x, t)),
           Add(Mul(q.y, Sub(F(1), t)), Mul(r.y, t)),
           Add(Mul(q.z, Sub(F(1), t)), Mul(r.z, t)),
           Add(Mul(q.w, Sub(F(1), t)), Mul(r.w, t)))

msh_quat_slerp_from_a_exchanged(q, r, t, a) ==
  IF Gt(FabsAngle(a), Q(1, 1000000))
  THEN msh_quat_add(
         msh_quat_scalar_mul(q, RadicalQuotient(SinOfMultiple(a, t),
                                                SinOfMultiple(a, F(1)))),
         msh_quat_scalar_mul(r, RadicalQuotient(SinOfMultiple(a, Sub(F(1), t)),
                                                SinOfMultiple(a, F(1)))))
  ELSE msh_quat_lerp(q, r, t)

msh_quat_slerp_from_a(q, r, t, a) ==
  IF Gt(FabsAngle(a), Q(1, 1000000))
  THEN msh_quat_add(
         msh_quat_scalar_mul(q, RadicalQuotient(SinOfMultiple(a, Sub(F(1), t)),
                                                SinOfMultiple(a, F(1)))),
         msh_quat_scalar_mul(r, RadicalQuotient(SinOfMultiple(a, t),
                                                SinOfMultiple(a, F(1)))))
  ELSE msh_quat_lerp(q, r, t)

msh_quat_slerp(q, r, t) == msh_quat_slerp_from_a(q, r, t, acosf(msh_quat_dot(q, r)))

msh_quat_to_mat3(q) ==
  LET xx == Mul(q.x, q.x)
      xy == Mul(q.x, q.y)
      xz == Mul(q.x, q.z)
      xw == Mul(q.x, q.w)
      yy == Mul(q.y, q.y)
      yz == Mul(q.y, q.z)
      yw == Mul(q.y, q.w)
      zz == Mul(q.z, q.z)
      zw == Mul(q.z, q.w)
  IN  Data(<< Sub(F(1), Mul(F(2), Add(yy, zz))),
              Mul(F(2), Add(xy, zw)),
              Mul(F(2), Sub(xz, yw)),
              Mul(F(2), Sub(xy, zw)),
              Sub(F(1), Mul(F(2), Add(xx, zz))),
              Mul(F(2), Add(yz, xw)),
              Mul(F(2), Add(xz, yw)),
              Mul(F(2), Sub(yz, xw)),
              Sub(F(1), Mul(F(2), Add(xx, yy))) >>)

\* FLT_EPSILON of binary32, 2^-23
MSH_FLT_EPSILON == Q(1, 8388608)

msh_mat3_to_quat_from_s(m, branch, s) ==
  CASE branch = 1 -> msh_quat(Div(Sub(m[5], m[7]), s), Div(Sub(m[6], m[2]), s),
                              Div(Sub(m[1], m[3]), s), Mul(Q(25, 100), s))
    [] branch = 2 -> msh_quat(Mul(Q(25, 100), s), Div(Add(m[3], m[1]), s),
                              Div(Add(m[6], m[2]), s), Div(Sub(m[5], m[7]), s))
    [] branch = 3 -> msh_quat(Div(Add(m[3], m[1]), s), Mul(Q(25, 100), s),
                              Div(Add(m[7], m[5]), s), Div(Sub(m[6], m[2]), s))
    [] branch = 4 -> msh_quat(Div(Add(m[6], m[2]), s), Div(Add(m[7], m[5]), s),
                              Mul(Q(25, 100), s), Div(Sub(m[1], m[3]), s))

\* the four if / else-if branches of msh_mat3_to_quat, with and without the
\* comparisons of the diagonal entries
msh_mat3_to_quat_branch_by_trace_only(m, tr) ==
  IF Gt(tr, MSH_FLT_EPSILON) THEN 1 ELSE 4

msh_mat3_to_quat_branch(m, tr) ==
  IF Gt(tr, MSH_FLT_EPSILON) THEN 1
  ELSE IF Gt(m[0], m[4]) /\ Gt(m[0], m[8]) THEN 2
  ELSE IF Gt(m[4], m[8]) THEN 3
  ELSE 4

\* the argument of sqrtf in the branch taken
msh_mat3_to_quat_radicand(m, tr, branch) ==
  CASE branch = 1 -> Add(tr, F(1))
    [] branch = 2 -> Sub(Sub(Add(F(1), m[0]), m[4]), m[8])
    [] branch = 3 -> Sub(Sub(Add(F(1), m[4]), m[0]), m[8])
    [] branch = 4 -> Sub(Sub(Add(F(1), m[8]), m[0]), m[4])

msh_mat3_to_quat_from_tr(m, tr) ==
  msh_mat3_to_quat_from_s(m, msh_mat3_to_quat_branch(m, tr),
    Mul(Sqrt(msh_mat3_to_quat_radicand(m, tr, msh_mat3_to_quat_branch(m, tr))), F(2)))

msh_mat3_to_quat(m) == msh_mat3_to_quat_from_tr(m, Add(Add(m[0], m[4]), m[8]))

(***************************************************************************)
(* Vector norm and normalisation                                           *)
(***************************************************************************)
msh_vec2_norm(v) == Sqrt(Add(Mul(v.x, v.x), Mul(v.y, v.y)))

msh_vec3_norm(v) == Sqrt(Add(Add(Mul(v.x, v.x), Mul(v.y, v.y)), Mul(v.z, v.z)))

msh_vec4_norm(v) ==
  Sqrt(Add(Add(Add(Mul(v.x, v.x), Mul(v.y, v.y)), Mul(v.z, v.z)), Mul(v.w, v.w)))

msh_vec2_normalize(v) ==
  LET denom == Div(F(1), Sqrt(Add(Mul(v.x, v.x), Mul(v.y, v.y))))
  IN  [x |-> Mul(v.x, denom), y |-> Mul(v.y, denom)]

msh_vec3_normalize(v) ==
  LET denom == Div(F(1), Sqrt(Add(Add(Mul(v.x, v.x), Mul(v.y, v.y)), Mul(v.z, v.z))))
  IN  [x |-> Mul(v.x, denom), y |-> Mul(v.y, denom), z |-> Mul(v.z, denom)]

msh_vec4_normalize_without_sqrt(v) ==
  LET denom == Div(F(1), Add(Add(Add(Mul(v.x, v.x), Mul(v.y, v.y)), Mul(v.z, v.z)),
                             Mul(v.w, v.w)))
  IN  [x |-> Mul(v.x, denom), y |-> Mul(v.y, denom), z |-> Mul(v.z, denom),
       w |-> Mul(v.w, denom)]

msh_vec4_normalize(v) ==
  LET denom == Div(F(1), Sqrt(Add(Add(Add(Mul(v.x, v.x), Mul(v.y, v.y)), Mul(v.z, v.z)),
                                  Mul(v.w, v.w))))
  IN  [x |-> Mul(v.x, denom), y |-> Mul(v.y, denom), z |-> Mul(v.z, denom),
       w |-> Mul(v.w, denom)]

VecDim(v) == Cardinality(DOMAIN v)

vec_norm(v) ==
  CASE VecDim(v) = 2 -> msh_vec2_norm(v)
    [] VecDim(v) = 3 -> msh_vec3_norm(v)
    [] VecDim(v) = 4 -> msh_vec4_norm(v)

vec_normalize(v) ==
  CASE VecDim(v) = 2 -> msh_vec2_normalize(v)
    [] VecDim(v) = 3 -> msh_vec3_normalize(v)
    [] VecDim(v) = 4 -> msh_vec4_normalize(v)

(***************************************************************************)
(* Vector arithmetic.  msh_vecN_f stands for msh_vec2_f, msh_vec3_f and    *)
(* msh_vec4_f: one arm for each, chosen by the dimension of the argument.  *)
(***************************************************************************)
msh_vecN_add(a, b) ==
  CASE VecDim(a) = 2 -> [x |-> Add(a.x, b.x), y |-> Add(a.y, b.y)]
    [] VecDim(a) = 3 -> [x |-> Add(a.x, b.x), y |-> Add(a.y, b.y), z |-> Add(a.z, b.z)]
    [] VecDim(a) = 4 -> [x |-> Add(a.x, b.x), y |-> Add(a.y, b.y), z |-> Add(a.z, b.z),
                         w |-> Add(a.w, b.w)]

msh_vecN_scalar_mul(v, s) ==
  CASE VecDim(v) = 2 -> [x |-> Mul(v.x, s), y |-> Mul(v.y, s)]
    [] VecDim(v) = 3 -> [x |-> Mul(v.x, s), y |-> Mul(v.y, s), z |-> Mul(v.z, s)]
    [] VecDim(v) = 4 -> [x |-> Mul(v.x, s), y |-> Mul(v.y, s), z |-> Mul(v.z, s),
                         w |-> Mul(v.w, s)]

msh_vecN_invert_keeping_w(v) ==
  CASE VecDim(v) = 2 -> [x |-> Neg(v.x), y |-> Neg(v.y)]
    [] VecDim(v) = 3 -> [x |-> Neg(v.x), y |-> Neg(v.y), z |-> Neg(v.z)]
    [] VecDim(v) = 4 -> [x |-> Neg(v.x), y |-> Neg(v.y), z |-> Neg(v.z), w |-> v.w]

msh_vecN_invert(v) ==
  CASE VecDim(v) = 2 -> [x |-> Neg(v.x), y |-> Neg(v.y)]
    [] VecDim(v) = 3 -> [x |-> Neg(v.x), y |-> Neg(v.y), z |-> Neg(v.z)]
    [] VecDim(v) = 4 -> [x |-> Neg(v.x), y |-> Neg(v.y), z |-> Neg(v.z), w |-> Neg(v.w)]

msh_vecN_dot(a, b) ==
  CASE VecDim(a) = 2 -> Add(Mul(a.x, b.x), Mul(a.y, b.y))
    [] VecDim(a) = 3 -> Add(Add(Mul(a.x, b.x), Mul(a.y, b.y)), Mul(a.z, b.z))
    [] VecDim(a) = 4 -> Add(Add(Add(Mul(a.x, b.x), Mul(a.y, b.y)), Mul(a.z, b.z)),
                            Mul(a.w, b.w))

(***************************************************************************)
(* Matrix operations on all three sizes: msh_matN_f stands for msh_mat2_f, *)
(* msh_mat3_f and msh_mat4_f                                               *)
(***************************************************************************)
msh_matN_transpose_keeping_5_and_7(m) ==
  CASE Dim(m) = 2 -> Data(<< m[0], m[2], m[1], m[3] >>)
    [] Dim(m) = 3 -> Data(<< m[0], m[3], m[6], m[1], m[4], m[5], m[2], m[7], m[8] >>)
    [] Dim(m) = 4 -> Data(<< m[0], m[4], m[8], m[12], m[1], m[5], m[9], m[13],
                             m[2], m[6], m[10], m[14], m[3], m[7], m[11], m[15] >>)

msh_matN_transpose(m) ==
  CASE Dim(m) = 2 -> Data(<< m[0], m[2], m[1], m[3] >>)
    [] Dim(m) = 3 -> Data(<< m[0], m[3], m[6], m[1], m[4], m[7], m[2], m[5], m[8] >>)
    [] Dim(m) = 4 -> Data(<< m[0], m[4], m[8], m[12], m[1], m[5], m[9], m[13],
                             m[2], m[6], m[10], m[14], m[3], m[7], m[11], m[15] >>)

\* m.col[j], the view of a matrix as an array of column vectors
Col(m, j) ==
  CASE Dim(m) = 2 -> [x |-> m[2 * j], y |-> m[2 * j + 1]]
    [] Dim(m) = 3 -> [x |-> m[3 * j], y |-> m[3 * j + 1], z |-> m[3 * j + 2]]
    [] Dim(m) = 4 -> [x |-> m[4 * j], y |-> m[4 * j + 1], z |-> m[4 * j + 2],
                      w |-> m[4 * j + 3]]

\* the 4x4 matrix whose col[] are the four vectors of c
FromCols(c) ==
  Data(<< c[1].x, c[1].y, c[1].z, c[1].w, c[2].x, c[2].y, c[2].z, c[2].w,
          c[3].x, c[3].y, c[3].z, c[3].w, c[4].x, c[4].y, c[4].z, c[4].w >>)

msh_vec3_cross_left_handed(a, b) ==
  [x |-> Sub(Mul(a.z, b.y), Mul(a.y, b.z)),
   y |-> Sub(Mul(a.x, b.z), Mul(a.z, b.x)),
   z |-> Sub(Mul(a.y, b.x), Mul(a.x, b.y))]

msh_vec3_cross(a, b) ==
  [x |-> Sub(Mul(a.y, b.z), Mul(a.z, b.y)),
   y |-> Sub(Mul(a.z, b.x), Mul(a.x, b.z)),
   z |-> Sub(Mul(a.x, b.y), Mul(a.y, b.x))]

(***************************************************************************)
(* sin, cos and tan of <math.h> on the angles the callers pass.  An angle  *)
(* is k times a base angle whose cosine c and sine s are fractions: the    *)
(* callers pass angles with k = 2 and the functions that halve an angle    *)
(* get k = 1.  pi is twice the right angle, (c, s) = (0, 1).               *)
(***************************************************************************)
Angles ==
  {[c |-> c_s[1], s |-> c_s[2], k |-> 2] :
     c_s \in {<<F(1), F(0)>>, <<F(0), F(1)>>, <<Q(4, 5), Q(3, 5)>>, <<Q(3, 5), Q(4, 5)>>,
              <<Q(-3, 5), Q(4, 5)>>, <<Q(4, 5), Q(-3, 5)>>}}

\* angle * 0.5
Half(angle) == CHOOSE a \in {[angle EXCEPT !.k = 1]} : angle.k = 2

sinf(a) == IF a.k = 1 THEN a.s ELSE Mul(F(2), Mul(a.s, a.c))

cosf(a) == IF a.k = 1 THEN a.c ELSE Sub(Mul(a.c, a.c), Mul(a.s, a.s))

tanf(a) == Div(sinf(a), cosf(a))

(***************************************************************************)
(* Quaternion constructors                                                 *)
(***************************************************************************)
msh_quat_from_axis_angle_not_halved(axis, angle) ==
  LET a == angle
      s == sinf(a)
  IN  msh_quat(Mul(axis.x, s), Mul(axis.y, s), Mul(axis.z, s), cosf(a))

msh_quat_from_axis_angle(axis, angle) ==
  LET a == Half(angle)
      s == sinf(a)
  IN  msh_quat(Mul(axis.x, s), Mul(axis.y, s), Mul(axis.z, s), cosf(a))

(***************************************************************************)
(* Clamping and comparison                                                 *)
(***************************************************************************)
msh_vecN_clamp_unguarded(v, min, max) ==
  LET fmaxf(x, y) == IF IsNaN(x) THEN y ELSE IF IsNaN(y) THEN x ELSE IF Gt(x, y) THEN x ELSE y
      fminf(x, y) == IF IsNaN(x) THEN y ELSE IF IsNaN(y) THEN x ELSE IF Lt(x, y) THEN x ELSE y
  IN
      CASE VecDim(v) = 2 -> [x |-> fminf(fmaxf(v.x, min), max),
                             y |-> fminf(fmaxf(v.y, min), max)]
        [] VecDim(v) = 3 -> [x |-> fminf(fmaxf(v.x, min), max),
                             y |-> fminf(fmaxf(v.y, min), max),
                             z |-> fminf(fmaxf(v.z, min), max)]
        [] VecDim(v) = 4 -> [x |-> fminf(fmaxf(v.x, min), max),
                             y |-> fminf(fmaxf(v.y, min), max),
                             z |-> fminf(fmaxf(v.z, min), max),
                             w |-> fminf(fmaxf(v.w, min), max)]

msh_vecN_clamp(v, min, max) ==
  LET fmaxf(x, y) == IF IsNaN(x) THEN y ELSE IF IsNaN(y) THEN x ELSE IF Gt(x, y) THEN x ELSE y
      fminf(x, y) == IF IsNaN(x) THEN y ELSE IF IsNaN(y) THEN x ELSE IF Lt(x, y) THEN x ELSE y
  IN  IF Gt(min, max) THEN v ELSE
      CASE VecDim(v) = 2 -> [x |-> fminf(fmaxf(v.x, min), max),
                             y |-> fminf(fmaxf(v.y, min), max)]
        [] VecDim(v) = 3 -> [x |-> fminf(fmaxf(v.x, min), max),
                             y |-> fminf(fmaxf(v.y, min), max),
                             z |-> fminf(fmaxf(v.z, min), max)]
        [] VecDim(v) = 4 -> [x |-> fminf(fmaxf(v.x, min), max),
                             y |-> fminf(fmaxf(v.y, min), max),
                             z |-> fminf(fmaxf(v.z, min), max),
                             w |-> fminf(fmaxf(v.w, min), max)]

msh_vecN_equal_exactly(a, b) ==
  CASE VecDim(a) = 2 -> a.x = b.x /\ a.y = b.y
    [] VecDim(a) = 3 -> a.x = b.x /\ a.y = b.y /\ a.z = b.z
    [] VecDim(a) = 4 -> a.x = b.x /\ a.y = b.y /\ a.z = b.z /\ a.w = b.w

msh_vecN_equal(a, b) ==
  CASE VecDim(a) = 2 -> /\ Le(Fabs(Sub(a.x, b.x)), MSH_FLT_EPSILON)
                        /\ Le(Fabs(Sub(a.y, b.y)), MSH_FLT_EPSILON)
    [] VecDim(a) = 3 -> /\ Le(Fabs(Sub(a.x, b.x)), MSH_FLT_EPSILON)
                        /\ Le(Fabs(Sub(a.y, b.y)), MSH_FLT_EPSILON)
                        /\ Le(Fabs(Sub(a.z, b.z)), MSH_FLT_EPSILON)
    [] VecDim(a) = 4 -> /\ Le(Fabs(Sub(a.x, b.x)), MSH_FLT_EPSILON)
                        /\ Le(Fabs(Sub(a.y, b.y)), MSH_FLT_EPSILON)
                        /\ Le(Fabs(Sub(a.z, b.z)), MSH_FLT_EPSILON)
                        /\ Le(Fabs(Sub(a.w, b.w)), MSH_FLT_EPSILON)

\* a.data[i] == b.data[i] for a finite or infinite value; a NaN equals nothing
msh_matN_equal(a, b) ==
  CASE Dim(a) = 2 -> \A i \in 0..3 : ~IsNaN(a[i]) /\ a[i] = b[i]
    [] Dim(a) = 3 -> \A i \in 0..8 : ~IsNaN(a[i]) /\ a[i] = b[i]
    [] Dim(a) = 4 -> \A i \in 0..15 : ~IsNaN(a[i]) /\ a[i] = b[i]

(***************************************************************************)
(* Transformations of a 4x4 matrix                                         *)
(***************************************************************************)
msh_translate_adding_t(m, t) ==
  FromCols(<< Col(m, 0), Col(m, 1), Col(m, 2),
              msh_vecN_add(Col(m, 3), [x |-> t.x, y |-> t.y, z |-> t.z, w |-> F(0)]) >>)

msh_translate(m, t) ==
  FromCols(<< Col(m, 0), Col(m, 1), Col(m, 2),
              msh_vecN_add(
                msh_vecN_add(msh_vecN_scalar_mul(Col(m, 0), t.x),
                             msh_vecN_scalar_mul(Col(m, 1), t.y)),
                msh_vecN_add(msh_vecN_scalar_mul(Col(m, 2), t.z),
                             Col(m, 3))) >>)

msh_scale(m, s) ==
  FromCols(<< msh_vecN_scalar_mul(Col(m, 0), s.x),
              msh_vecN_scalar_mul(Col(m, 1), s.y),
              msh_vecN_scalar_mul(Col(m, 2), s.z),
              Col(m, 3) >>)

\* rotate is msh_mat4_zeros() with the nine entries the code assigns
msh_rotate_from_rotate(m, rotate) ==
  FromCols(<< msh_vecN_add(msh_vecN_scalar_mul(Col(m, 0), rotate[0]),
                msh_vecN_add(msh_vecN_scalar_mul(Col(m, 1), rotate[1]),
                             msh_vecN_scalar_mul(Col(m, 2), rotate[2]))),
              msh_vecN_add(msh_vecN_scalar_mul(Col(m, 0), rotate[4]),
                msh_vecN_add(msh_vecN_scalar_mul(Col(m, 1), rotate[5]),
                             msh_vecN_scalar_mul(Col(m, 2), rotate[6]))),
              msh_vecN_add(msh_vecN_scalar_mul(Col(m, 0), rotate[8]),
                msh_vecN_add(msh_vecN_scalar_mul(Col(m, 1), rotate[9]),
                             msh_vecN_scalar_mul(Col(m, 2), rotate[10]))),
              Col(m, 3) >>)

msh_rotate_from_axis(m, c, s, t, axis) ==
  msh_rotate_from_rotate(m,
    [Mat(<<0, 0, 0, 0, 0, 0, 0, 0, 0, 0, 0, 0, 0, 0, 0, 0>>) EXCEPT
       ![0] = Add(c, Mul(Mul(axis.x, axis.x), t)),
       ![5] = Add(c, Mul(Mul(axis.y, axis.y), t)),
       ![10] = Add(c, Mul(Mul(axis.z, axis.z), t)),
       ![1] = Add(Mul(Mul(axis.x, axis.y), t), Mul(axis.z, s)),
       ![4] = Sub(Mul(Mul(axis.x, axis.y), t), Mul(axis.z, s)),
       ![2] = Sub(Mul(Mul(axis.x, axis.z), t), Mul(axis.y, s)),
       ![8] = Add(Mul(Mul(axis.x, axis.z), t), Mul(axis.y, s)),
       ![6] = Add(Mul(Mul(axis.y, axis.z), t), Mul(axis.x, s)),
       ![9] = Sub(Mul(Mul(axis.y, axis.z), t), Mul(axis.x, s))])

msh_rotate(m, angle, v) ==
  msh_rotate_from_axis(m, cosf(angle), sinf(angle), Sub(F(1), cosf(angle)),
                       msh_vec3_normalize(v))

(***************************************************************************)
(* The quaternion that rotates one vector onto another                     *)
(***************************************************************************)
\* the quaternion msh_quat( v3.x, v3.y, v3.z, real_part ) before it is normalised
msh_quat_from_vectors_crossing_v2_v1(v1, v2, norm_v1_norm_v2) ==
  LET real_part == Add(norm_v1_norm_v2, msh_vecN_dot(v1, v2))
  IN  IF Lt(real_part, Mul(Q(1, 1000000), norm_v1_norm_v2))
      THEN IF Gt(Fabs(v1.x), Fabs(v1.z))
           THEN msh_quat(Neg(v1.y), v1.x, F(0), F(0))
           ELSE msh_quat(F(0), Neg(v1.z), v1.y, F(0))
      ELSE ImRe(msh_vec3_cross(v2, v1), real_part)

msh_quat_from_vectors_before_normalize(v1, v2, norm_v1_norm_v2) ==
  LET real_part == Add(norm_v1_norm_v2, msh_vecN_dot(v1, v2))
  IN  IF Lt(real_part, Mul(Q(1, 1000000), norm_v1_norm_v2))
      THEN IF Gt(Fabs(v1.x), Fabs(v1.z))
           THEN msh_quat(Neg(v1.y), v1.x, F(0), F(0))
           ELSE msh_quat(F(0), Neg(v1.z), v1.y, F(0))
      ELSE ImRe(msh_vec3_cross(v1, v2), real_part)

msh_quat_from_vectors(v1, v2) ==
  msh_quat_normalize(
    msh_quat_from_vectors_before_normalize(v1, v2,
      Sqrt(Mul(msh_vecN_dot(v1, v1), msh_vecN_dot(v2, v2)))))

(***************************************************************************)
(* Projection matrices                                                     *)
(***************************************************************************)
msh_frustum_with_c_positive(left, right, bottom, top, z_near, z_far) ==
  LET x_diff == Sub(right, left)
      y_diff == Sub(top, bottom)
      z_diff == Sub(z_far, z_near)
      a == Div(Add(right, left), x_diff)
      b == Div(Add(top, bottom), y_diff)
      c == Div(Add(z_far, z_near), z_diff)
      d == Div(Neg(Mul(Mul(F(2), z_far), z_near)), z_diff)
  IN  Data(<< Div(Mul(F(2), z_near), x_diff), F(0), F(0), F(0),
              F(0), Div(Mul(F(2), z_near), y_diff), F(0), F(0),
              a, b, c, F(-1),
              F(0), F(0), d, F(0) >>)

msh_frustum(left, right, bottom, top, z_near, z_far) ==
  LET x_diff == Sub(right, left)
      y_diff == Sub(top, bottom)
      z_diff == Sub(z_far, z_near)
      a == Div(Add(right, left), x_diff)
      b == Div(Add(top, bottom), y_diff)
      c == Div(Neg(Add(z_far, z_near)), z_diff)
      d == Div(Neg(Mul(Mul(F(2), z_far), z_near)), z_diff)
  IN  Data(<< Div(Mul(F(2), z_near), x_diff), F(0), F(0), F(0),
              F(0), Div(Mul(F(2), z_near), y_diff), F(0), F(0),
              a, b, c, F(-1),
              F(0), F(0), d, F(0) >>)

msh_perspective(fovy, aspect, z_near, z_far) ==
  LET ymax == Mul(z_near, tanf(Half(fovy)))
      ymin == Neg(ymax)
      xmin == Mul(ymin, aspect)
      xmax == Mul(ymax, aspect)
  IN  msh_frustum(xmin, xmax, ymin, ymax, z_near, z_far)

msh_ortho(left, right, bottom, top, z_near, z_far) ==
  LET x_diff == Sub(right, left)
      y_diff == Sub(top, bottom)
      z_diff == Sub(z_far, z_near)
      tx == Div(Neg(Add(right, left)), x_diff)
      ty == Div(Neg(Add(top, bottom)), y_diff)
      tz == Div(Neg(Add(z_near, z_far)), z_diff)
  IN  Data(<< Div(F(2), x_diff), F(0), F(0), F(0),
              F(0), Div(F(2), y_diff), F(0), F(0),
              F(0), F(0), Div(F(-2), z_diff), F(0),
              tx, ty, tz, F(1) >>)

(***************************************************************************)
(* Object space to window space and back                                   *)
(***************************************************************************)
msh_vec4_scalar_div(v, s) ==
  LET denom == Div(F(1), s)
  IN  [x |-> Mul(v.x, denom), y |-> Mul(v.y, denom), z |-> Mul(v.z, denom),
       w |-> Mul(v.w, denom)]

\* tmp is the clip-space point after its division by w
msh_project_from_tmp(tmp, viewport) ==
  [x |-> Add(viewport.x, Div(Mul(viewport.z, Add(tmp.x, F(1))), F(2))),
   y |-> Add(viewport.y, Div(Mul(viewport.w, Add(tmp.y, F(1))), F(2))),
   z |-> Div(Add(tmp.z, F(1)), F(2))]

msh_project(obj, modelview, project, viewport) ==
  msh_project_from_tmp(
    msh_vec4_scalar_div(msh_mat4_vec4_mul(msh_mat4_mul(project, modelview), obj),
                        msh_mat4_vec4_mul(msh_mat4_mul(project, modelview), obj).w),
    viewport)

msh_unproject_without_viewport_origin(win, modelview, project, viewport) ==
  LET inv_pm == msh_mat4_inverse(msh_mat4_mul(project, modelview))
      tmp == [x |-> Sub(Div(Mul(F(2), win.x), viewport.z), F(1)),
              y |-> Sub(Div(Mul(F(2), win.y), viewport.w), F(1)),
              z |-> Sub(Mul(F(2), win.z), F(1)),
              w |-> F(1)]
      obj == msh_mat4_vec4_mul(inv_pm, tmp)
  IN  msh_vec4_scalar_div(obj, obj.w)

msh_unproject(win, modelview, project, viewport) ==
  LET inv_pm == msh_mat4_inverse(msh_mat4_mul(project, modelview))
      tmp == [x |-> Sub(Div(Mul(F(2), Sub(win.x, viewport.x)), viewport.z), F(1)),
              y |-> Sub(Div(Mul(F(2), Sub(win.y, viewport.y)), viewport.w), F(1)),
              z |-> Sub(Mul(F(2), win.z), F(1)),
              w |-> F(1)]
      obj == msh_mat4_vec4_mul(inv_pm, tmp)
  IN  msh_vec4_scalar_div(obj, obj.w)

(***************************************************************************)
(* The view matrix of a camera                                             *)
(***************************************************************************)
msh_look_at_translating_by_eye(eye, x, y, z) ==
  Data(<< x.x, y.x, z.x, F(0),
          x.y, y.y, z.y, F(0),
          x.z, y.z, z.z, F(0),
          msh_vecN_dot(eye, x), msh_vecN_dot(eye, y), msh_vecN_dot(eye, z), F(1) >>)

msh_look_at_from_x(eye, x, y, z) ==
  Data(<< x.x, y.x, z.x, F(0),
          x.y, y.y, z.y, F(0),
          x.z, y.z, z.z, F(0),
          Neg(msh_vecN_dot(eye, x)), Neg(msh_vecN_dot(eye, y)), Neg(msh_vecN_dot(eye, z)),
          F(1) >>)

msh_look_at(eye, center, up) ==
  LET msh_vec3_sub(a, b) == [x |-> Sub(a.x, b.x), y |-> Sub(a.y, b.y), z |-> Sub(a.z, b.z)]
      z == msh_vec3_normalize(msh_vec3_sub(eye, center))
      x == msh_vec3_normalize(msh_vec3_cross(up, z))
      y == msh_vec3_normalize(msh_vec3_cross(z, x))
  IN  msh_look_at_from_x(eye, x, y, z)

(***************************************************************************)
(* Quaternion division                                                     *)
(***************************************************************************)
msh_quat_div(a, b) == msh_quat_mul(a, msh_quat_inverse(b))

(***************************************************************************)
(* Euler angles                                                            *)
(***************************************************************************)
msh_quat_from_euler_angles(pitch, yaw, roll) ==
  LET c1 == cosf(Half(pitch))
      s1 == sinf(Half(pitch))
      c2 == cosf(Half(yaw))
      s2 == sinf(Half(yaw))
      c3 == cosf(Half(roll))
      s3 == sinf(Half(roll))
  IN  msh_quat(Sub(Mul(Mul(c1, c2), c3), Mul(Mul(s1, s2), s3)),
               Add(Mul(Mul(c1, c2), s3), Mul(Mul(s1, s2), c3)),
               Add(Mul(Mul(s1, c2), c3), Mul(Mul(c1, s2), s3)),
               Sub(Mul(Mul(c1, s2), c3), Mul(Mul(s1, c2), s3)))

\* an angle that asin or atan2 returns is the record of its cosine and sine
msh_mat3_to_euler(m) ==
  LET asin(v) == [c |-> Sqrt(Sub(F(1), Mul(v, v))), s |-> v, k |-> 1]
      atan2(y, x) ==
        IF y = F(0) /\ x = F(0) THEN [c |-> F(1), s |-> F(0), k |-> 1]
        ELSE [c |-> Div(x, Sqrt(Add(Mul(x, x), Mul(y, y)))),
              s |-> Div(y, Sqrt(Add(Mul(x, x), Mul(y, y)))), k |-> 1]
      minus(a) == [a EXCEPT !.s = Neg(a.s)]
  IN  IF Lt(m[6], F(1))
      THEN IF Gt(m[6], F(-1))
           THEN [x |-> atan2(Neg(m[7]), m[8]),
                 y |-> asin(m[6]),
                 z |-> atan2(Neg(m[3]), m[0])]
           ELSE [x |-> minus(atan2(m[1], m[4])),
                 y |-> [c |-> F(0), s |-> F(-1), k |-> 1],
                 z |-> [c |-> F(1), s |-> F(0), k |-> 1]]
      ELSE [x |-> atan2(m[1], m[4]),
            y |-> [c |-> F(0), s |-> F(1), k |-> 1],
            z |-> [c |-> F(1), s |-> F(0), k |-> 1]]

msh_mat3_from_euler(euler_angles) ==
  LET sx == sinf(euler_angles.x)
      sy == sinf(euler_angles.y)
      sz == sinf(euler_angles.z)
      cx == cosf(euler_angles.x)
      cy == cosf(euler_angles.y)
      cz == cosf(euler_angles.z)
  IN  Data(<< Mul(cy, cz), Mul(cy, sz), Neg(sy),
              Sub(Mul(Mul(sx, sy), cz), Mul(cx, sz)),
              Add(Mul(cx, cz), Mul(Mul(sx, sy), sz)),
              Mul(sx, cy),
              Add(Mul(Mul(cx, sy), cz), Mul(sx, sz)),
              Sub(Mul(Mul(cx, sy), sz), Mul(sx, cz)),
              Mul(cx, cy) >>)

(***************************************************************************)
(* The caller's state: cur is the matrix the caller holds, fn the last       *)
(* library function called, arg its arguments and ret what it returned.    *)
(***************************************************************************)
\* the caller holds a matrix it may pass on: an input or a composition
Holding == fn \in {"input", "mat_mul"}

MatInit ==
  /\ cur \in MatSeeds
  /\ fn = "input"
  /\ arg = <<>>
  /\ ret = cur
  /\ steps = 0

MatMulStep ==
  /\ Holding
  /\ steps < MaxSteps
  /\ \E b \in MatOperands(Dim(cur)) :
       LET o == mat_mul(cur, b)
       IN  /\ EntriesWithin(o, MaxEntry)
           /\ fn' = "mat_mul"
           /\ arg' = <<cur, b>>
           /\ ret' = o
           /\ cur' = o
  /\ steps' = steps + 1

MatInverse ==
  /\ Holding
  /\ fn' = "mat_inverse"
  /\ arg' = <<cur>>
  /\ ret' = mat_inverse(cur)
  /\ UNCHANGED <<cur, steps>>

MatDeterminant ==
  /\ Holding
  /\ fn' = "mat_determinant"
  /\ arg' = <<cur>>
  /\ ret' = mat_determinant(cur)
  /\ UNCHANGED <<cur, steps>>

MatTrace ==
  /\ Holding
  /\ fn' = "mat_trace"
  /\ arg' = <<cur>>
  /\ ret' = mat_trace(cur)
  /\ UNCHANGED <<cur, steps>>

MatVecMul ==
  /\ Holding
  /\ \E v \in VecInputs(Dim(cur)) :
       /\ fn' = "mat_vec_mul"
       /\ arg' = <<cur, v>>
       /\ ret' = mat_vec_mul(cur, v)
  /\ UNCHANGED <<cur, steps>>

Mat4Vec3Mul ==
  /\ Holding
  /\ Dim(cur) = 4
  /\ \E v \in VecInputs(3), is_point \in 0..MaxIsPoint :
       /\ fn' = "mat4_vec3_mul"
       /\ arg' = <<cur, v, is_point>>
       /\ ret' = msh_mat4_vec3_mul(cur, v, is_point)
  /\ UNCHANGED <<cur, steps>>

\* the caller transposes the matrix it last got
MatTranspose ==
  /\ fn \in {"input", "mat_mul", "mat_transpose"}
  /\ fn' = "mat_transpose"
  /\ arg' = <<ret>>
  /\ ret' = msh_matN_transpose(ret)
  /\ UNCHANGED <<cur, steps>>

\* the caller multiplies its matrix by the identity, on either side
MatIdentityMul ==
  /\ Holding
  /\ \E side \in {"left", "right"} :
       /\ arg' = IF side = "left" THEN <<mat_identity(Dim(cur)), cur>>
                                   ELSE <<cur, mat_identity(Dim(cur))>>
       /\ ret' = IF side = "left" THEN mat_mul(mat_identity(Dim(cur)), cur)
                                   ELSE mat_mul(cur, mat_identity(Dim(cur)))
  /\ fn' = "mat_identity_mul"
  /\ UNCHANGED <<cur, steps>>

\* the caller compares its matrix with itself, with copies one entry of
\* which is off by a fraction of epsilon, and with its transpose
MatEqual ==
  /\ Holding
  /\ \E b \in {cur, msh_matN_transpose(cur),
                [cur EXCEPT ![0] = Add(@, MSH_FLT_EPSILON)],
                [cur EXCEPT ![1] = Sub(@, Div(MSH_FLT_EPSILON, F(2)))],
                [cur EXCEPT ![3] = Add(@, Mul(F(2), MSH_FLT_EPSILON))]} :
       /\ fn' = "mat_equal"
       /\ arg' = <<cur, b>>
       /\ ret' = msh_matN_equal(cur, b)
  /\ UNCHANGED <<cur, steps>>

MatTranslate ==
  /\ Holding
  /\ Dim(cur) = 4
  /\ \E t \in VecInputs(3) :
       /\ fn' = "translate"
       /\ arg' = <<cur, t>>
       /\ ret' = msh_translate(cur, t)
  /\ UNCHANGED <<cur, steps>>

MatScale ==
  /\ Holding
  /\ Dim(cur) = 4
  /\ \E s \in VecInputs(3) :
       /\ fn' = "scale"
       /\ arg' = <<cur, s>>
       /\ ret' = msh_scale(cur, s)
  /\ UNCHANGED <<cur, steps>>

\* the axes are not normalised and have a fractional norm
MatRotate ==
  /\ Holding
  /\ Dim(cur) = 4
  /\ \E angle \in Angles,
        v \in {msh_vec3(0, 0, 2), msh_vec3(0, 3, 4), msh_vec3(1, 2, 2)} :
       /\ fn' = "rotate"
       /\ arg' = <<cur, angle, v>>
       /\ ret' = msh_rotate(cur, angle, v)
  /\ UNCHANGED <<cur, steps>>

\* the caller starts from the identity and replaces it by a projection; the
\* boxes include empty ones (left = right, bottom = top, z_near = z_far) and
\* near planes at and behind the eye
MatOrtho ==
  /\ fn = "input"
  /\ cur = msh_mat4_identity
  /\ \E left \in {F(-2), F(-1), F(0)}, right \in {F(-1), F(1), F(2)},
        bottom \in {F(-1), Q(1, 2)}, top \in {Q(1, 2), F(3)},
        z_near \in {F(-1), F(0), Q(1, 2), F(1), F(2)}, z_far \in {F(1), F(2), F(5)} :
       /\ fn' = "ortho"
       /\ arg' = <<left, right, bottom, top, z_near, z_far>>
       /\ ret' = msh_ortho(left, right, bottom, top, z_near, z_far)
       /\ cur' = msh_ortho(left, right, bottom, top, z_near, z_far)
  /\ UNCHANGED steps

MatFrustum ==
  /\ fn = "input"
  /\ cur = msh_mat4_identity
  /\ \E left \in {F(-2), F(-1), F(0)}, right \in {F(-1), F(1), F(2)},
        bottom \in {F(-1), Q(1, 2)}, top \in {Q(1, 2), F(3)},
        z_near \in {F(-1), F(0), Q(1, 2), F(1), F(2)}, z_far \in {F(1), F(2), F(5)} :
       /\ fn' = "frustum"
       /\ arg' = <<left, right, bottom, top, z_near, z_far>>
       /\ ret' = msh_frustum(left, right, bottom, top, z_near, z_far)
       /\ cur' = msh_frustum(left, right, bottom, top, z_near, z_far)
  /\ UNCHANGED steps

MatPerspective ==
  /\ fn = "input"
  /\ cur = msh_mat4_identity
  /\ \E fovy \in Angles, aspect \in {F(1), F(2), Q(3, 4)},
        z_near \in {F(-1), F(0), Q(1, 2), F(1), F(2)}, z_far \in {F(1), F(2), F(5)} :
       /\ fn' = "perspective"
       /\ arg' = <<fovy, aspect, z_near, z_far>>
       /\ ret' = msh_perspective(fovy, aspect, z_near, z_far)
       /\ cur' = msh_perspective(fovy, aspect, z_near, z_far)
  /\ UNCHANGED steps

\* the caller projects an object point with the matrix it starts from as
\* modelview and keeps the point; the viewport (1,-1,2,0) has no height and
\* the point (1,0,0,0) is a direction
MatProject ==
  /\ fn = "input"
  /\ Dim(cur) = 4
  /\ \E obj \in {msh_vec4(1, 2, 3, 1), msh_vec4(-1, 1, -2, 1), msh_vec4(1, 0, 0, 0)},
        project \in {msh_mat4_identity,
                     msh_frustum(F(-1), F(1), F(-1), F(1), F(1), F(3)),
                     msh_ortho(F(0), F(2), F(-1), F(1), F(-1), F(1))},
        viewport \in {msh_vec4(0, 0, 4, 2), msh_vec4(1, -1, 2, 0), msh_vec4(-2, 3, 1, 5)} :
       /\ fn' = "project"
       /\ arg' = <<obj, cur, project, viewport>>
       /\ ret' = msh_project(obj, cur, project, viewport)
       /\ cur' = obj
  /\ UNCHANGED steps

\* the caller takes the window point back with the same matrices and viewport
MatUnproject ==
  /\ fn = "project"
  /\ fn' = "unproject"
  /\ arg' = <<ret, arg[2], arg[3], arg[4]>>
  /\ ret' = msh_unproject(ret, arg[2], arg[3], arg[4])
  /\ UNCHANGED <<cur, steps>>

\* the caller starts from the identity and replaces it by a view matrix; the
\* cameras are those whose two square roots are fractions, among them eye =
\* center and up along the view direction
MatLookAt ==
  /\ fn = "input"
  /\ cur = msh_mat4_identity
  /\ \E eye \in {msh_vec3(0, 0, 5), msh_vec3(1, 2, 2), msh_vec3(0, 3, 4), msh_vec3(2, 3, 3),
                  msh_vec3(3, 0, 4), msh_vec3(0, 0, -2), msh_vec3(1, 1, 1)},
        center \in {msh_vec3(0, 0, 0), msh_vec3(1, 1, 1), msh_vec3(1, 0, -1)},
        up \in {msh_vec3(0, 1, 0), msh_vec3(0, 0, 1), msh_vec3(3, 0, 3), msh_vec3(1, 3, 4),
                msh_vec3(3, 4, 1), msh_vec3(4, -3, 2), msh_vec3(1, 2, 2)} :
       /\ IsSquare(Add(Add(Mul(Sub(eye.x, center.x), Sub(eye.x, center.x)),
                           Mul(Sub(eye.y, center.y), Sub(eye.y, center.y))),
                       Mul(Sub(eye.z, center.z), Sub(eye.z, center.z))))
       /\ IsSquare(msh_vecN_dot(
            msh_vec3_cross(up, msh_vec3_normalize(
              [x |-> Sub(eye.x, center.x), y |-> Sub(eye.y, center.y),
               z |-> Sub(eye.z, center.z)])),
            msh_vec3_cross(up, msh_vec3_normalize(
              [x |-> Sub(eye.x, center.x), y |-> Sub(eye.y, center.y),
               z |-> Sub(eye.z, center.z)]))))
       /\ fn' = "look_at"
       /\ arg' = <<eye, center, up>>
       /\ ret' = msh_look_at(eye, center, up)
       /\ cur' = msh_look_at(eye, center, up)
  /\ UNCHANGED steps

\* the caller starts from the identity and replaces it by the matrix of
\* three Euler angles, the angle 0 and the right angle among them; the third
\* angle is a multiple of the right angle
MatFromEuler ==
  /\ fn = "input"
  /\ cur = msh_mat3_identity
  /\ \E x \in Angles \cup {[c |-> F(0), s |-> F(1), k |-> 1]},
        y \in Angles \cup {[c |-> F(0), s |-> F(1), k |-> 1], [c |-> F(0), s |-> F(-1), k |-> 1]},
        z \in {a \in Angles : sinf(a) = F(0)} \cup {[c |-> F(0), s |-> F(1), k |-> 1]} :
       /\ fn' = "mat3_from_euler"
       /\ arg' = <<[x |-> x, y |-> y, z |-> z]>>
       /\ ret' = msh_mat3_from_euler([x |-> x, y |-> y, z |-> z])
       /\ cur' = msh_mat3_from_euler([x |-> x, y |-> y, z |-> z])
  /\ UNCHANGED steps

\* the caller reads the Euler angles of that matrix, when their cosines and
\* sines are fractions
MatToEuler ==
  /\ fn = "mat3_from_euler"
  /\ IF Lt(cur[6], F(1)) /\ Gt(cur[6], F(-1))
     THEN /\ IsSquare(Sub(F(1), Mul(cur[6], cur[6])))
          /\ IsSquare(Add(Mul(cur[7], cur[7]), Mul(cur[8], cur[8])))
          /\ IsSquare(Add(Mul(cur[3], cur[3]), Mul(cur[0], cur[0])))
     ELSE IsSquare(Add(Mul(cur[1], cur[1]), Mul(cur[4], cur[4])))
  /\ fn' = "mat3_to_euler"
  /\ arg' = <<cur>>
  /\ ret' = msh_mat3_to_euler(cur)
  /\ UNCHANGED <<cur, steps>>

MatNext ==
  \/ MatMulStep
  \/ MatInverse
  \/ MatDeterminant
  \/ MatTrace
  \/ MatVecMul
  \/ Mat4Vec3Mul
  \/ MatTranspose
  \/ MatIdentityMul
  \/ MatEqual
  \/ MatTranslate
  \/ MatScale
  \/ MatRotate
  \/ MatOrtho
  \/ MatFrustum
  \/ MatPerspective
  \/ MatProject
  \/ MatUnproject
  \/ MatLookAt
  \/ MatFromEuler
  \/ MatToEuler

SpecMat == MatInit /\ [][MatNext]_vars

(***************************************************************************)
(* Quaternions: the caller holds a quaternion cur, may normalise it, and   *)
(* calls the inverse, the two conversions and slerp on it                  *)
(***************************************************************************)
MaxQuat == 4

QuatInputs ==
  {msh_quat(F(x), F(y), F(z), F(w)) :
     x \in -MaxQuat..MaxQuat, y \in -MaxQuat..MaxQuat,
     z \in -MaxQuat..MaxQuat, w \in -MaxQuat..MaxQuat}

Negated(q) == msh_quat(Neg(q.x), Neg(q.y), Neg(q.z), Neg(q.w))

\* the second argument of slerp: q itself, its opposite, its conjugate and
\* fixed quaternions, (1,1,0,0) not being a unit one
SlerpPartners(q) ==
  {q, Negated(q), msh_quat_conjugate(q), msh_quat_identity,
   msh_quat(F(1), F(0), F(0), F(0)),
   msh_quat(F(1), F(1), F(0), F(0)),
   msh_quat(Q(1, 2), Q(1, 2), Q(1, 2), Q(1, 2))}

SlerpTs == {F(0), Q(1, 2), F(1), F(2), Q(-1, 2)}

\* the two weights of slerp are fractions, or the lerp branch is taken
SlerpIsFraction(a, t) ==
  \/ ~Gt(FabsAngle(a), Q(1, 1000000))
  \/ /\ SinQuotientIsFraction(a, t)
     /\ SinQuotientIsFraction(a, Sub(F(1), t))

QuatInit ==
  /\ cur \in QuatInputs
  /\ fn = "input"
  /\ arg = <<>>
  /\ ret = cur
  /\ steps = 0

QuatNormalize ==
  /\ fn = "input"
  /\ IsSquare(msh_quat_norm_sq(cur))
  /\ fn' = "quat_normalize"
  /\ arg' = <<cur>>
  /\ ret' = msh_quat_normalize(cur)
  /\ cur' = msh_quat_normalize(cur)
  /\ UNCHANGED steps

QuatInverse ==
  /\ fn \in {"input", "quat_normalize"}
  /\ fn' = "quat_inverse"
  /\ arg' = <<cur>>
  /\ ret' = msh_quat_inverse(cur)
  /\ UNCHANGED <<cur, steps>>

QuatToMat3 ==
  /\ fn \in {"input", "quat_normalize"}
  /\ fn' = "quat_to_mat3"
  /\ arg' = <<cur>>
  /\ ret' = msh_quat_to_mat3(cur)
  /\ UNCHANGED <<cur, steps>>

Mat3ToQuat ==
  /\ fn = "quat_to_mat3"
  /\ IsSquare(msh_mat3_to_quat_radicand(ret, Add(Add(ret[0], ret[4]), ret[8]),
                msh_mat3_to_quat_branch(ret, Add(Add(ret[0], ret[4]), ret[8]))))
  /\ fn' = "mat3_to_quat"
  /\ arg' = <<ret>>
  /\ ret' = msh_mat3_to_quat(ret)
  /\ UNCHANGED <<cur, steps>>

QuatSlerp ==
  /\ fn = "quat_normalize"
  /\ \E r \in SlerpPartners(cur), t \in SlerpTs :
       /\ SlerpIsFraction(acosf(msh_quat_dot(cur, r)), t)
       /\ fn' = "quat_slerp"
       /\ arg' = <<cur, r, t>>
       /\ ret' = msh_quat_slerp(cur, r, t)
  /\ UNCHANGED <<cur, steps>>

\* the caller starts from the identity and replaces it by the quaternion of
\* an axis and an angle; (0,0,2) is an axis that is not normalised
QuatFromAxisAngle ==
  /\ fn = "input"
  /\ cur = msh_quat_identity
  /\ \E axis \in {msh_vec3(0, 0, 1), msh_vec3(1, 0, 0), msh_vec3(0, -1, 0),
                   msh_vec3(0, 0, 2),
                   msh_vec3_normalize(msh_vec3(0, 3, 4)),
                   msh_vec3_normalize(msh_vec3(1, 2, 2)),
                   msh_vec3_normalize(msh_vec3(-2, 1, 2))},
        angle \in Angles :
       /\ fn' = "quat_from_axis_angle"
       /\ arg' = <<axis, angle>>
       /\ ret' = msh_quat_from_axis_angle(axis, angle)
       /\ cur' = msh_quat_from_axis_angle(axis, angle)
  /\ UNCHANGED steps

MaxAxis == 2

\* the caller starts from the identity and replaces it by the quaternion that
\* rotates v1 onto v2; the pairs are those whose two square roots are fractions
QuatFromVectors ==
  /\ fn = "input"
  /\ cur = msh_quat_identity
  /\ \E a \in (-MaxAxis..MaxAxis) \X (-MaxAxis..MaxAxis) \X (-MaxAxis..MaxAxis),
        b \in (-MaxAxis..MaxAxis) \X (-MaxAxis..MaxAxis) \X (-MaxAxis..MaxAxis) :
       /\ IsSquare(Mul(F(a[1] * a[1] + a[2] * a[2] + a[3] * a[3]),
                       F(b[1] * b[1] + b[2] * b[2] + b[3] * b[3])))
       /\ IsSquare(msh_quat_norm_sq(
            msh_quat_from_vectors_before_normalize(
              msh_vec3(a[1], a[2], a[3]), msh_vec3(b[1], b[2], b[3]),
              Sqrt(Mul(F(a[1] * a[1] + a[2] * a[2] + a[3] * a[3]),
                       F(b[1] * b[1] + b[2] * b[2] + b[3] * b[3]))))))
       /\ fn' = "quat_from_vectors"
       /\ arg' = <<msh_vec3(a[1], a[2], a[3]), msh_vec3(b[1], b[2], b[3])>>
       /\ ret' = msh_quat_from_vectors(msh_vec3(a[1], a[2], a[3]), msh_vec3(b[1], b[2], b[3]))
       /\ cur' = msh_quat_from_vectors(msh_vec3(a[1], a[2], a[3]), msh_vec3(b[1], b[2], b[3]))
  /\ UNCHANGED steps

\* the caller multiplies a quaternion with components -1, 0, 1 (the units i,
\* j, k and the identity among them) by a second one
QuatMul ==
  /\ fn = "input"
  /\ \A c \in DOMAIN cur : Le(Fabs(cur[c]), F(1))
  /\ \E b \in {msh_quat_identity, msh_quat(F(1), F(0), F(0), F(0)),
               msh_quat(F(0), F(1), F(0), F(0)), msh_quat(F(0), F(0), F(1), F(0)),
               msh_quat(F(1), F(2), F(-1), F(3))} :
       /\ fn' = "quat_mul"
       /\ arg' = <<cur, b>>
       /\ ret' = msh_quat_mul(cur, b)
  /\ UNCHANGED <<cur, steps>>

\* the caller divides such a quaternion by itself, by a unit or by a
\* quaternion of norm 2
QuatDiv ==
  /\ fn = "input"
  /\ \A c \in DOMAIN cur : Le(Fabs(cur[c]), F(1))
  /\ \E b \in {cur, msh_quat_identity, msh_quat(F(0), F(0), F(1), F(0)),
               msh_quat(F(1), F(1), F(-1), F(1))} :
       /\ fn' = "quat_div"
       /\ arg' = <<cur, b>>
       /\ ret' = msh_quat_div(cur, b)
  /\ UNCHANGED <<cur, steps>>

\* the caller starts from the identity and replaces it by the quaternion of
\* three Euler angles, the angle 0 among them
QuatFromEulerAngles ==
  /\ fn = "input"
  /\ cur = msh_quat_identity
  /\ \E pitch \in Angles, yaw \in Angles, roll \in Angles :
       /\ fn' = "quat_from_euler_angles"
       /\ arg' = <<pitch, yaw, roll>>
       /\ ret' = msh_quat_from_euler_angles(pitch, yaw, roll)
       /\ cur' = msh_quat_from_euler_angles(pitch, yaw, roll)
  /\ UNCHANGED steps

QuatNext ==
  \/ QuatNormalize
  \/ QuatInverse
  \/ QuatToMat3
  \/ Mat3ToQuat
  \/ QuatSlerp
  \/ QuatFromAxisAngle
  \/ QuatFromVectors
  \/ QuatMul
  \/ QuatDiv
  \/ QuatFromEulerAngles

SpecQuat == QuatInit /\ [][QuatNext]_vars

(***************************************************************************)
(* Vectors: the caller holds a vector cur and normalises it                *)
(***************************************************************************)
MaxVec == 4

VecSeeds ==
  {msh_vec2(x, y) : x \in -MaxVec..MaxVec, y \in -MaxVec..MaxVec}
    \cup {msh_vec3(x, y, z) : x \in -MaxVec..MaxVec, y \in -MaxVec..MaxVec, z \in 0..MaxVec}
    \cup {msh_vec4(x, y, z, w) : x \in -MaxVec..MaxVec, y \in 0..MaxVec,
                                  z \in 0..2, w \in 0..2}

\* the squared length of a vector of any dimension
SumOfSquares(v) ==
  Add(Add(Mul(v.x, v.x), Mul(v.y, v.y)),
      Add(IF "z" \in DOMAIN v THEN Mul(v.z, v.z) ELSE F(0),
          IF "w" \in DOMAIN v THEN Mul(v.w, v.w) ELSE F(0)))

VecInit ==
  /\ cur \in VecSeeds
  /\ fn = "input"
  /\ arg = <<>>
  /\ ret = cur
  /\ steps = 0

VecNormalize ==
  /\ fn = "input"
  /\ IsSquare(SumOfSquares(cur))
  /\ fn' = "vec_normalize"
  /\ arg' = <<cur>>
  /\ ret' = vec_normalize(cur)
  /\ UNCHANGED <<cur, steps>>

VecNorm ==
  /\ fn = "input"
  /\ IsSquare(SumOfSquares(cur))
  /\ fn' = "vec_norm"
  /\ arg' = <<cur>>
  /\ ret' = vec_norm(cur)
  /\ UNCHANGED <<cur, steps>>

\* the caller negates the vector it last got, at most twice
VecInvert ==
  /\ fn \in {"input", "vec_invert"}
  /\ steps < 2
  /\ fn' = "vec_invert"
  /\ arg' = <<ret>>
  /\ ret' = msh_vecN_invert(ret)
  /\ steps' = steps + 1
  /\ UNCHANGED cur

\* the caller adds to its vector the vector it last got or a fixed one
VecAdd ==
  /\ fn \in {"input", "vec_invert"}
  /\ \E b \in {ret} \cup VecInputs(VecDim(cur)) :
       /\ fn' = "vec_add"
       /\ arg' = <<cur, b>>
       /\ ret' = msh_vecN_add(cur, b)
  /\ UNCHANGED <<cur, steps>>

VecCross ==
  /\ fn = "input"
  /\ VecDim(cur) = 3
  /\ \E b \in {cur} \cup VecInputs(3) :
       /\ fn' = "vec3_cross"
       /\ arg' = <<cur, b>>
       /\ ret' = msh_vec3_cross(cur, b)
  /\ UNCHANGED <<cur, steps>>

VecClamp ==
  /\ fn = "input"
  /\ \E min \in {F(-1), Q(1, 2), F(2)}, max \in {F(-1), Q(1, 2), F(2)} :
       /\ fn' = "vec_clamp"
       /\ arg' = <<cur, min, max>>
       /\ ret' = msh_vecN_clamp(cur, min, max)
  /\ UNCHANGED <<cur, steps>>

VecNext ==
  \/ VecNormalize
  \/ VecNorm
  \/ VecInvert
  \/ VecAdd
  \/ VecCross
  \/ VecClamp

SpecVec == VecInit /\ [][VecNext]_vars

(***************************************************************************)
(* Reference definitions the claims are stated with                        *)
(***************************************************************************)
\* entry (row i, column j) of a column-major matrix
Entry(a, i, j) == a[j * Dim(a) + i]

IndexPermutations(n) ==
  { p \in [0..(n - 1) -> 0..(n - 1)] : \A i, j \in 0..(n - 1) : p[i] = p[j] => i = j }

PermSign(p, n) ==
  IF Cardinality({ ij \in (0..(n - 1)) \X (0..(n - 1)) :
                     ij[1] < ij[2] /\ p[ij[1]] > p[ij[2]] }) % 2 = 0
  THEN F(1) ELSE F(-1)

RECURSIVE PermProduct(_, _, _)
PermProduct(a, p, i) ==
  IF i = Dim(a) THEN F(1) ELSE Mul(Entry(a, i, p[i]), PermProduct(a, p, i + 1))

RECURSIVE SumTerms(_)
SumTerms(T) ==
  IF T = {} THEN F(0)
  ELSE LET t == CHOOSE x \in T : TRUE
       IN  Add(t[2], SumTerms(T \ {t}))

\* the determinant by the Leibniz formula
LeibnizDet(a) ==
  SumTerms({ <<p, Mul(PermSign(p, Dim(a)), PermProduct(a, p, 0))>> : p \in IndexPermutations(Dim(a)) })

RECURSIVE DiagonalSumFrom(_, _)
DiagonalSumFrom(a, i) ==
  IF i = Dim(a) THEN F(0) ELSE Add(Entry(a, i, i), DiagonalSumFrom(a, i + 1))

Scaled(a, s) == [i \in DOMAIN a |-> Mul(s, a[i])]

AllFinite(a) == \A i \in DOMAIN a : IsFinite(a[i])

AllIntegers(a) == \A i \in DOMAIN a : a[i][2] = 1

Xyz(v) == [x |-> v.x, y |-> v.y, z |-> v.z]

(***************************************************************************)
(* Claims about the matrix operations (SpecMat)                            *)
(***************************************************************************)
\* C1: for every non-singular matrix A of size 2, 3 and 4, msh_matN_mul(A,
\* msh_matN_inverse(A)) and msh_matN_mul(msh_matN_inverse(A), A) are the
\* identity; when A is an integer matrix of determinant +1 or -1 the inverse
\* is an integer matrix too, so no rounding enters.
InverseIsTwoSided ==
  (fn = "mat_inverse" /\ LeibnizDet(arg[1]) # F(0)) =>
    /\ mat_mul(arg[1], ret) = mat_identity(Dim(arg[1]))
    /\ mat_mul(ret, arg[1]) = mat_identity(Dim(arg[1]))
    /\ (LeibnizDet(arg[1]) \in {F(1), F(-1)} => AllIntegers(ret))

\* C1 witness: a composed 4x4 matrix whose determinant is neither 0 nor +-1
\* has been inverted and the inverse has fractional entries.
InverseIsTwoSidedWitness ==
  /\ fn = "mat_inverse"
  /\ Dim(arg[1]) = 4
  /\ steps > 0
  /\ LeibnizDet(arg[1]) \notin {F(0), F(1), F(-1)}
  /\ ~AllIntegers(ret)
  /\ AllFinite(ret)

\* C3: msh_matN_mul is composition: applying msh_matN_mul(a, b) to a vector
\* equals applying b and then a.
MulIsComposition ==
  fn = "mat_mul" =>
    \A v \in VecInputs(Dim(ret)) :
      mat_vec_mul(ret, v) = mat_vec_mul(arg[1], mat_vec_mul(arg[2], v))

\* C3 witness: two 4x4 matrices that do not commute have been multiplied.
MulIsCompositionWitness ==
  /\ fn = "mat_mul"
  /\ Dim(ret) = 4
  /\ mat_mul(arg[2], arg[1]) # ret

\* C4: msh_mat4_vec3_mul(m, v, is_point) is the xyz part of m.(v, 0) when
\* is_point is 0 and the xyz part of m.(v, 1) for every non-zero is_point.
Mat4Vec3MulIsPointOrDirection ==
  fn = "mat4_vec3_mul" =>
    ret = Xyz(msh_mat4_vec4_mul(arg[1],
                [x |-> arg[2].x, y |-> arg[2].y, z |-> arg[2].z,
                 w |-> IF arg[3] = 0 THEN F(0) ELSE F(1)]))

\* C5: msh_matN_trace(m) is the sum of the main-diagonal entries of m.
TraceIsDiagonalSum ==
  fn = "mat_trace" => ret = DiagonalSumFrom(arg[1], 0)

\* C6: msh_matN_determinant(m) is the Leibniz determinant of m; it is the
\* value msh_matN_inverse divides by (the inverse is non-finite exactly when
\* it is 0, and the inverse scaled by it is the integer adjugate of m); and
\* the determinant of a product is the product of the determinants.
DeterminantIsLeibniz ==
  /\ fn = "mat_determinant" =>
       /\ ret = LeibnizDet(arg[1])
       /\ (ret = F(0)) = ~AllFinite(mat_inverse(arg[1]))
       /\ ret # F(0) =>
            /\ AllIntegers(Scaled(mat_inverse(arg[1]), ret))
            /\ mat_mul(arg[1], Scaled(mat_inverse(arg[1]), ret))
                 = Scaled(mat_identity(Dim(arg[1])), ret)
  /\ fn = "mat_mul" =>
       mat_determinant(ret) = Mul(mat_determinant(arg[1]), mat_determinant(arg[2]))

\* C6 witness: the determinant of the 2x2 matrix with data {2,0,0,3} is 6.
DeterminantIsLeibnizWitness ==
  /\ fn = "mat_determinant"
  /\ arg[1] = Mat(<<2, 0, 0, 3>>)
  /\ ret = F(6)

(***************************************************************************)
(* Properties of the quaternion operations                                 *)
(***************************************************************************)
IsUnit(q) == msh_quat_norm_sq(q) = F(1)

QuatScaled(q, s) == [c \in DOMAIN q |-> Mul(q[c], s)]

Transposed(a) == [i \in DOMAIN a |-> a[(i % Dim(a)) * Dim(a) + (i \div Dim(a))]]

\* an orthogonal 3x3 matrix of determinant 1
IsRotation(a) ==
  /\ Dim(a) = 3
  /\ AllFinite(a)
  /\ mat_mul(a, Transposed(a)) = msh_mat3_identity
  /\ LeibnizDet(a) = F(1)

\* the component-wise blend q*(1-t) + r*t
Blend(q, r, t) == [c \in DOMAIN q |-> Add(Mul(q[c], Sub(F(1), t)), Mul(r[c], t))]

\* C2: for every quaternion q of non-zero norm, msh_quat_inverse(q) is
\* msh_quat_conjugate(q) with each of x, y, z and w divided by
\* msh_quat_norm_sq(q), and msh_quat_mul(q, msh_quat_inverse(q)) is the
\* identity quaternion (0,0,0,1).
InverseIsConjugateOverNormSq ==
  (fn = "quat_inverse" /\ IsFinite(arg[1].x) /\ msh_quat_norm_sq(arg[1]) # F(0)) =>
    /\ ret = QuatScaled(msh_quat_conjugate(arg[1]), Div(F(1), msh_quat_norm_sq(arg[1])))
    /\ msh_quat_mul(arg[1], ret) = msh_quat_identity

\* C7: for every unit quaternion q, msh_mat3_to_quat(msh_quat_to_mat3(q)) is
\* q or -q, and for every rotation matrix M, msh_quat_to_mat3(msh_mat3_to_quat(M))
\* is M, in each of the four branches of msh_mat3_to_quat.
ConversionsRoundTrip ==
  /\ (fn = "quat_to_mat3" /\ IsUnit(cur)) => IsRotation(ret)
  /\ (fn = "mat3_to_quat" /\ IsUnit(cur)) => ret \in {cur, Negated(cur)}
  /\ (fn = "mat3_to_quat" /\ IsRotation(arg[1])) => msh_quat_to_mat3(ret) = arg[1]

\* C7 witness: a unit quaternion with negative z whose matrix has trace 0
\* (not above epsilon) and three equal diagonal entries has been converted
\* back by the last branch, which returned its opposite.
ConversionsRoundTripWitness ==
  /\ fn = "mat3_to_quat"
  /\ IsUnit(cur)
  /\ IsRotation(arg[1])
  /\ Add(Add(arg[1][0], arg[1][4]), arg[1][8]) = F(0)
  /\ arg[1][0] = arg[1][4] /\ arg[1][4] = arg[1][8]
  /\ msh_mat3_to_quat_branch(arg[1], F(0)) = 4
  /\ ret = Negated(cur)
  /\ ret # cur

\* C8: for unit quaternions q and r, r = q and r = -q included,
\* msh_quat_slerp(q, r, 0) is q and msh_quat_slerp(q, r, 1) is r.
SlerpEndpoints ==
  (fn = "quat_slerp" /\ IsUnit(arg[1]) /\ IsUnit(arg[2])) =>
    /\ arg[3] = F(0) => ret = arg[1]
    /\ arg[3] = F(1) => ret = arg[2]

\* C8 witness: slerp at t = 1 between a unit quaternion with fractional
\* components and its opposite returned the opposite.
SlerpEndpointsWitness ==
  /\ fn = "quat_slerp"
  /\ IsUnit(arg[1])
  /\ arg[1].x = Q(3, 5)
  /\ arg[2] = Negated(arg[1])
  /\ arg[3] = F(1)
  /\ ret = arg[2]

\* C9: when the angle acos(dot(q, r)) has magnitude at most 1e-6,
\* msh_quat_slerp(q, r, t) is msh_quat_lerp(q, r, t), the component-wise blend
\* q*(1-t) + r*t without renormalisation, and no division by sin(angle) = 0
\* shows in the result; msh_quat_slerp(q, q, t) is q for every unit q and t.
SlerpFallsBackToLerp ==
  fn = "quat_slerp" =>
    /\ Le(FabsAngle(acosf(msh_quat_dot(arg[1], arg[2]))), Q(1, 1000000)) =>
         /\ ret = msh_quat_lerp(arg[1], arg[2], arg[3])
         /\ ret = Blend(arg[1], arg[2], arg[3])
         /\ \A c \in DOMAIN ret : IsFinite(ret[c])
    /\ (IsUnit(arg[1]) /\ arg[2] = arg[1]) => ret = arg[1]

\* C9 witness: slerp at t = 1/2 between (1,0,0,0) and (1,1,0,0), whose dot
\* product is 1, returned the blend (1,1/2,0,0), which is not a unit
\* quaternion.
SlerpFallsBackToLerpWitness ==
  /\ fn = "quat_slerp"
  /\ arg[1] = msh_quat(F(1), F(0), F(0), F(0))
  /\ arg[2] = msh_quat(F(1), F(1), F(0), F(0))
  /\ arg[3] = Q(1, 2)
  /\ ret = msh_quat(F(1), Q(1, 2), F(0), F(0))
  /\ ~IsUnit(ret)

(***************************************************************************)
(* Properties of the vector operations                                     *)
(***************************************************************************)
IsZeroVec(v) == \A c \in DOMAIN v : v[c] = F(0)

VecScaled(v, s) == [c \in DOMAIN v |-> Mul(v[c], s)]

\* C10: for a non-zero vector v of dimension 2, 3 or 4, msh_vecN_normalize(v)
\* has msh_vecN_norm 1 and is v multiplied by 1/norm(v); for the zero vector
\* every component of the result is non-finite.
NormalizeHasNormOne ==
  fn = "vec_normalize" =>
    /\ ~IsZeroVec(arg[1]) =>
         /\ vec_norm(ret) = F(1)
         /\ ret = VecScaled(arg[1], Div(F(1), vec_norm(arg[1])))
         /\ SumOfSquares(ret) = F(1)
    /\ IsZeroVec(arg[1]) => \A c \in DOMAIN ret : ~IsFinite(ret[c])

\* C10 witness: the 4-vector (4,2,2,1) of norm 5 has been normalised to
\* (4/5, 2/5, 2/5, 1/5).
NormalizeHasNormOneWitness ==
  /\ fn = "vec_normalize"
  /\ arg[1] = msh_vec4(4, 2, 2, 1)
  /\ ret.x = Q(4, 5)
  /\ ret.w = Q(1, 5)

\* C11: for every vector v of dimension 2, 3 and 4, msh_vecN_invert negates
\* every component, msh_vecN_invert(msh_vecN_invert(v)) is v, and
\* msh_vecN_add(v, msh_vecN_invert(v)) is the zero vector.
InvertIsAdditiveInverse ==
  /\ fn = "vec_invert" =>
       /\ DOMAIN ret = DOMAIN arg[1]
       /\ \A c \in DOMAIN ret : ret[c] = Neg(arg[1][c])
       /\ steps = 2 => ret = cur
  /\ (fn = "vec_add" /\ \A c \in DOMAIN cur : arg[2][c] = Neg(arg[1][c])) =>
       IsZeroVec(ret)

\* C11 witness: a 4-vector with four non-zero components and its inversion
\* have been added.
InvertIsAdditiveInverseWitness ==
  /\ fn = "vec_add"
  /\ VecDim(cur) = 4
  /\ \A c \in DOMAIN cur : cur[c] # F(0)
  /\ arg[2] = msh_vecN_invert(arg[1])
  /\ steps = 1
  /\ IsZeroVec(ret)

\* C12: msh_matN_transpose swaps entry (row i, column j) with entry (row j,
\* column i), and transposing twice gives the matrix back, for 2x2, 3x3 and
\* 4x4 matrices.
TransposeIsInvolution ==
  fn = "mat_transpose" =>
    /\ \A i \in 0..(Dim(ret) - 1), j \in 0..(Dim(ret) - 1) :
         Entry(ret, i, j) = Entry(arg[1], j, i)
    /\ arg[1] # cur => ret = cur
    /\ msh_matN_transpose(ret) = arg[1]

\* C12 witness: a composed 4x4 matrix that is not symmetric has been
\* transposed twice.
TransposeIsInvolutionWitness ==
  /\ fn = "mat_transpose"
  /\ Dim(cur) = 4
  /\ steps > 0
  /\ arg[1] # cur
  /\ ret = cur

\* C13: the identity matrix is a two-sided unit for N = 2, 3, 4:
\* msh_matN_mul(identity, A) and msh_matN_mul(A, identity) are A, and
\* msh_matN_vecN_mul(identity, v) is v; msh_mat4_identity() times itself is
\* itself and maps (1,2,3,1) to (1,2,3,1).
IdentityIsUnit ==
  /\ fn = "mat_identity_mul" => ret = cur
  /\ (fn = "mat_vec_mul" /\ arg[1] = mat_identity(Dim(arg[1]))) => ret = arg[2]
  /\ fn = "input" =>
       /\ mat_mul(msh_mat4_identity, msh_mat4_identity) = msh_mat4_identity
       /\ msh_mat4_vec4_mul(msh_mat4_identity, msh_vec4(1, 2, 3, 1)) = msh_vec4(1, 2, 3, 1)

\* C13 witness: a composed 4x4 matrix with a non-zero entry off the diagonal
\* has been multiplied by the identity on the left.
IdentityIsUnitWitness ==
  /\ fn = "mat_identity_mul"
  /\ Dim(cur) = 4
  /\ steps > 0
  /\ arg[1] = msh_mat4_identity
  /\ arg[2] # msh_mat4_identity
  /\ ret = arg[2]

\* C14: msh_vec3_cross(a, b) is the right-handed cross product
\* (a.y*b.z - a.z*b.y, a.z*b.x - a.x*b.z, a.x*b.y - a.y*b.x): it is
\* orthogonal to a and to b, cross(a, b) is -cross(b, a), and
\* cross((1,0,0), (0,1,0)) is (0,0,1).
CrossIsRightHanded ==
  fn = "vec3_cross" =>
    /\ ret.x = Sub(Mul(arg[1].y, arg[2].z), Mul(arg[1].z, arg[2].y))
    /\ ret.y = Sub(Mul(arg[1].z, arg[2].x), Mul(arg[1].x, arg[2].z))
    /\ ret.z = Sub(Mul(arg[1].x, arg[2].y), Mul(arg[1].y, arg[2].x))
    /\ msh_vecN_dot(ret, arg[1]) = F(0)
    /\ msh_vecN_dot(ret, arg[2]) = F(0)
    /\ ret = msh_vecN_invert(msh_vec3_cross(arg[2], arg[1]))
    /\ (arg[1] = msh_vec3(1, 0, 0) /\ arg[2] = msh_vec3(0, 1, 0)) => ret = msh_vec3(0, 0, 1)

\* C14 witness: the cross product of (1,0,0) and (0,1,0) has been taken
\* and is (0,0,1).
CrossIsRightHandedWitness ==
  /\ fn = "vec3_cross"
  /\ arg[1] = msh_vec3(1, 0, 0)
  /\ arg[2] = msh_vec3(0, 1, 0)
  /\ ret = msh_vec3(0, 0, 1)

AnglePi == [c |-> F(0), s |-> F(1), k |-> 2]

\* C15: msh_quat_from_axis_angle(axis, angle) is (axis*sin(angle/2),
\* cos(angle/2)); for a normalised axis it is a unit quaternion whose
\* matrix is a rotation that fixes the axis and has trace 1 + 2*cos(angle);
\* for axis (0,0,1) and angle pi msh_quat_to_mat3 gives the rotation by 180
\* degrees about z, column-major {-1,0,0, 0,-1,0, 0,0,1}.
FromAxisAngleIsHalfAngle ==
  fn = "quat_from_axis_angle" =>
    /\ ret = msh_quat(Mul(arg[1].x, sinf(Half(arg[2]))), Mul(arg[1].y, sinf(Half(arg[2]))),
                      Mul(arg[1].z, sinf(Half(arg[2]))), cosf(Half(arg[2])))
    /\ Mul(F(2), Mul(ret.w, ret.w)) = Add(F(1), cosf(arg[2]))
    /\ SumOfSquares(arg[1]) = F(1) =>
         /\ IsUnit(ret)
         /\ IsRotation(msh_quat_to_mat3(ret))
         /\ msh_mat3_vec3_mul(msh_quat_to_mat3(ret), arg[1]) = arg[1]
         /\ DiagonalSumFrom(msh_quat_to_mat3(ret), 0) = Add(F(1), Mul(F(2), cosf(arg[2])))
    /\ (arg[1] = msh_vec3(0, 0, 1) /\ arg[2] = AnglePi) =>
         msh_quat_to_mat3(ret) = Mat(<<-1, 0, 0, 0, -1, 0, 0, 0, 1>>)

\* C15 witness: the quaternion of axis (0,0,1) and angle pi has been built
\* and its matrix is the rotation by 180 degrees about z.
FromAxisAngleIsHalfAngleWitness ==
  /\ fn = "quat_from_axis_angle"
  /\ arg[1] = msh_vec3(0, 0, 1)
  /\ arg[2] = AnglePi
  /\ ret = msh_quat(F(0), F(0), F(1), F(0))
  /\ msh_quat_to_mat3(ret) = Mat(<<-1, 0, 0, 0, -1, 0, 0, 0, 1>>)

\* C16: msh_vecN_clamp(v, min, max) returns v unchanged when min > max; when
\* min <= max every component of the result lies in [min, max] and every
\* component of v already in [min, max] is returned unchanged.
ClampKeepsRangeOrInput ==
  fn = "vec_clamp" =>
    /\ Gt(arg[2], arg[3]) => ret = arg[1]
    /\ Le(arg[2], arg[3]) =>
         /\ DOMAIN ret = DOMAIN arg[1]
         /\ \A c \in DOMAIN ret :
              /\ Le(arg[2], ret[c]) /\ Le(ret[c], arg[3])
              /\ (Le(arg[2], arg[1][c]) /\ Le(arg[1][c], arg[3])) => ret[c] = arg[1][c]

\* C16 witness: a 4-vector with a component below -1, one above 2 and one
\* in between has been clamped to [-1, 2].
ClampKeepsRangeOrInputWitness ==
  /\ fn = "vec_clamp"
  /\ arg[2] = F(-1) /\ arg[3] = F(2)
  /\ VecDim(arg[1]) = 4
  /\ Lt(arg[1].x, F(-1)) /\ ret.x = F(-1)
  /\ Gt(arg[1].y, F(2)) /\ ret.y = F(2)
  /\ arg[1].z = F(1) /\ ret.z = F(1)

\* every component of two vectors differs by at most epsilon
WithinEpsilon(a, b) ==
  \A c \in DOMAIN a : Le(Fabs(Sub(a[c], b[c])), MSH_FLT_EPSILON)

\* C17: msh_vecN_equal(a, b) is true exactly when every pair of components
\* differs by at most MSH_FLT_EPSILON, msh_matN_equal(a, b) exactly when
\* every pair of components is equal; matrix equality implies vector
\* equality of the columns.
EqualIsAsymmetric ==
  fn = "mat_equal" =>
    /\ ret = (\A i \in DOMAIN arg[1] : arg[1][i] = arg[2][i])
    /\ \A j \in 0..(Dim(arg[1]) - 1) :
         /\ msh_vecN_equal(Col(arg[1], j), Col(arg[2], j))
              = WithinEpsilon(Col(arg[1], j), Col(arg[2], j))
         /\ ret => msh_vecN_equal(Col(arg[1], j), Col(arg[2], j))

\* C17 witness: two 4x4 matrices one entry of which differs by epsilon have
\* been compared: msh_mat4_equal is false and msh_vec4_equal is true of
\* each pair of columns.
EqualIsAsymmetricWitness ==
  /\ fn = "mat_equal"
  /\ Dim(arg[1]) = 4
  /\ ret = FALSE
  /\ arg[2][0] = Add(arg[1][0], MSH_FLT_EPSILON)
  /\ \A j \in 0..3 : msh_vecN_equal(Col(arg[1], j), Col(arg[2], j))

\* the 4x4 matrix of a 3x3 matrix r and a translation t
Affine(r, t) ==
  Data(<< r[0], r[1], r[2], F(0), r[3], r[4], r[5], F(0), r[6], r[7], r[8], F(0),
          t.x, t.y, t.z, F(1) >>)

Diagonal3(s) == Data(<< s.x, F(0), F(0), F(0), s.y, F(0), F(0), F(0), s.z >>)

\* C18: msh_translate(m, t) is msh_mat4_mul(m, T) for the translation matrix
\* T of t and keeps columns 0-2 of m; msh_scale(m, s) is msh_mat4_mul(m, S)
\* for the diagonal matrix S of s and keeps column 3; msh_rotate(m, angle,
\* axis) is msh_mat4_mul(m, R) for the rotation R by angle about the
\* normalised axis and keeps column 3.
TransformsPostMultiply ==
  /\ fn = "translate" =>
       /\ ret = msh_mat4_mul(arg[1], Affine(msh_mat3_identity, arg[2]))
       /\ \A i \in 0..11 : ret[i] = arg[1][i]
  /\ fn = "scale" =>
       /\ ret = msh_mat4_mul(arg[1], Affine(Diagonal3(arg[2]), msh_vec3(0, 0, 0)))
       /\ \A i \in 12..15 : ret[i] = arg[1][i]
  /\ fn = "rotate" =>
       /\ ret = msh_mat4_mul(arg[1],
                   Affine(msh_quat_to_mat3(
                            msh_quat_from_axis_angle(msh_vec3_normalize(arg[3]), arg[2])),
                          msh_vec3(0, 0, 0)))
       /\ \A i \in 12..15 : ret[i] = arg[1][i]

\* C18 witness: a composed 4x4 matrix has been rotated about the axis
\* (1,2,2) by an angle that is not a multiple of a right angle, which
\* changed its first three columns.
TransformsPostMultiplyWitness ==
  /\ fn = "rotate"
  /\ steps > 0
  /\ arg[3] = msh_vec3(1, 2, 2)
  /\ cosf(arg[2]) = Q(7, 25)
  /\ \A j \in 0..2 : Col(ret, j) # Col(arg[1], j)
  /\ Col(ret, 3) = Col(arg[1], 3)

\* v1 and v2 point in opposite directions as msh_quat_from_vectors tests it
Opposite(v1, v2) ==
  Lt(Add(Sqrt(Mul(SumOfSquares(v1), SumOfSquares(v2))),
         Add(Add(Mul(v1.x, v2.x), Mul(v1.y, v2.y)), Mul(v1.z, v2.z))),
     Mul(Q(1, 1000000), Sqrt(Mul(SumOfSquares(v1), SumOfSquares(v2)))))

\* v points in the direction of u: a positive multiple of it
SameDirection(v, u) ==
  /\ Sub(Mul(v.y, u.z), Mul(v.z, u.y)) = F(0)
  /\ Sub(Mul(v.z, u.x), Mul(v.x, u.z)) = F(0)
  /\ Sub(Mul(v.x, u.y), Mul(v.y, u.x)) = F(0)
  /\ Gt(Add(Add(Mul(v.x, u.x), Mul(v.y, u.y)), Mul(v.z, u.z)), F(0))

BoxIsProper == arg[1] # arg[2] /\ arg[3] # arg[4] /\ arg[5] # arg[6]

\* the projection ret takes the point (x, y, -z, 1) to (e, e, e) after the
\* division by w
ProjectsTo(x, y, z, e) ==
  /\ Div(msh_mat4_vec4_mul(ret, [x |-> x, y |-> y, z |-> Neg(z), w |-> F(1)]).x,
         msh_mat4_vec4_mul(ret, [x |-> x, y |-> y, z |-> Neg(z), w |-> F(1)]).w) = e
  /\ Div(msh_mat4_vec4_mul(ret, [x |-> x, y |-> y, z |-> Neg(z), w |-> F(1)]).y,
         msh_mat4_vec4_mul(ret, [x |-> x, y |-> y, z |-> Neg(z), w |-> F(1)]).w) = e
  /\ Div(msh_mat4_vec4_mul(ret, [x |-> x, y |-> y, z |-> Neg(z), w |-> F(1)]).z,
         msh_mat4_vec4_mul(ret, [x |-> x, y |-> y, z |-> Neg(z), w |-> F(1)]).w) = e

\* msh_ortho takes the near corner to (-1,-1,-1) and the far corner to (1,1,1)
OrthoMapsCorners ==
  (fn = "ortho" /\ BoxIsProper) =>
    /\ ProjectsTo(arg[1], arg[3], arg[5], F(-1))
    /\ ProjectsTo(arg[2], arg[4], arg[6], F(1))

\* msh_perspective is msh_frustum of the box of half height z_near * tan(fovy / 2)
PerspectiveIsFrustum ==
  fn = "perspective" =>
    ret = msh_frustum(
            Mul(Neg(Mul(arg[3], Div(Half(arg[1]).s, Half(arg[1]).c))), arg[2]),
            Mul(Mul(arg[3], Div(Half(arg[1]).s, Half(arg[1]).c)), arg[2]),
            Neg(Mul(arg[3], Div(Half(arg[1]).s, Half(arg[1]).c))),
            Mul(arg[3], Div(Half(arg[1]).s, Half(arg[1]).c)),
            arg[3], arg[4])

\* C20 as stated: for left # right, bottom # top and z_near # z_far,
\* msh_ortho and msh_frustum take the near corner (l, b, -n, 1) to
\* (-1,-1,-1) after the division by w, msh_ortho takes the far corner
\* (r, t, -f, 1) to (1,1,1), and msh_perspective(fovy, aspect, n, f) is
\* msh_frustum(-ymax*aspect, ymax*aspect, -ymax, ymax, n, f) with
\* ymax = n*tan(fovy/2).
ProjectionsMapCornersAsStated ==
  /\ OrthoMapsCorners
  /\ (fn = "frustum" /\ BoxIsProper) => ProjectsTo(arg[1], arg[3], arg[5], F(-1))
  /\ PerspectiveIsFrustum

\* C20: the same with, for msh_frustum, z_near # 0 as a further condition:
\* with the near plane through the eye the near corner has w = 0.
ProjectionsMapCorners ==
  /\ OrthoMapsCorners
  /\ (fn = "frustum" /\ BoxIsProper /\ arg[5] # F(0)) =>
       ProjectsTo(arg[1], arg[3], arg[5], F(-1))
  /\ PerspectiveIsFrustum

\* C20 witness: a frustum that is not symmetric about the axis, with a
\* fractional near plane, whose near corner has w = 1/2.
ProjectionsMapCornersWitness ==
  /\ fn = "frustum"
  /\ arg = <<F(-2), F(1), F(-1), F(3), Q(1, 2), F(5)>>
  /\ msh_mat4_vec4_mul(ret, [x |-> F(-2), y |-> F(-1), z |-> Q(-1, 2), w |-> F(1)]).w = Q(1, 2)
  /\ cur = ret

\* C21: for an invertible product project * modelview, a viewport of
\* non-zero width and height and an object point with w = 1 whose clip-space
\* w is not 0, msh_unproject of msh_project of the point is the point; and
\* msh_project takes NDC x, y, z = -1 to the viewport origin and window z 0,
\* and NDC x, y, z = 1 to the origin plus width and height and window z 1.
UnprojectInvertsProject ==
  /\ (/\ fn = "unproject"
      /\ LeibnizDet(msh_mat4_mul(arg[3], arg[2])) # F(0)
      /\ arg[4].z # F(0) /\ arg[4].w # F(0)
      /\ cur.w = F(1)
      /\ msh_mat4_vec4_mul(msh_mat4_mul(arg[3], arg[2]), cur).w # F(0))
       => ret = cur
  /\ fn = "project" =>
       /\ msh_project(msh_vec4(-1, -1, -1, 1), msh_mat4_identity, msh_mat4_identity, arg[4])
            = [x |-> arg[4].x, y |-> arg[4].y, z |-> F(0)]
       /\ msh_project(msh_vec4(1, 1, 1, 1), msh_mat4_identity, msh_mat4_identity, arg[4])
            = [x |-> Add(arg[4].x, arg[4].z), y |-> Add(arg[4].y, arg[4].w), z |-> F(1)]
       /\ (/\ arg[4].z # F(0) /\ arg[4].w # F(0)
           /\ IsFinite(ret.x) /\ IsFinite(ret.y) /\ IsFinite(ret.z))
            => /\ Div(Mul(F(2), Sub(ret.x, arg[4].x)), arg[4].z)
                   = Add(F(1), Div(msh_mat4_vec4_mul(msh_mat4_mul(arg[3], arg[2]), arg[1]).x,
                                   msh_mat4_vec4_mul(msh_mat4_mul(arg[3], arg[2]), arg[1]).w))
               /\ Mul(F(2), ret.z)
                   = Add(F(1), Div(msh_mat4_vec4_mul(msh_mat4_mul(arg[3], arg[2]), arg[1]).z,
                                   msh_mat4_vec4_mul(msh_mat4_mul(arg[3], arg[2]), arg[1]).w))

\* C21 witness: a point has gone through a modelview that is neither a
\* translation nor a permutation, a frustum with a clip-space w other than 1
\* and a viewport away from the origin, and has come back.
UnprojectInvertsProjectWitness ==
  /\ fn = "unproject"
  /\ arg[2] = Mat(<<1, 1, 0, 2, 0, 1, 1, 0, 2, 0, 1, 1, 1, 2, 0, 1>>)
  /\ arg[3] = msh_frustum(F(-1), F(1), F(-1), F(1), F(1), F(3))
  /\ arg[4] = msh_vec4(-2, 3, 1, 5)
  /\ msh_mat4_vec4_mul(msh_mat4_mul(arg[3], arg[2]), cur).w \notin {F(0), F(1)}
  /\ cur.w = F(1)
  /\ ret = cur

\* row i of the upper-left 3x3 block of a 4x4 matrix
Row3(m, i) == [x |-> m[i], y |-> m[4 + i], z |-> m[8 + i]]

\* the cross product of a and b, from its definition
Cross(a, b) ==
  [x |-> Sub(Mul(a.y, b.z), Mul(a.z, b.y)),
   y |-> Sub(Mul(a.z, b.x), Mul(a.x, b.z)),
   z |-> Sub(Mul(a.x, b.y), Mul(a.y, b.x))]

DotProduct(a, b) == Add(Add(Mul(a.x, b.x), Mul(a.y, b.y)), Mul(a.z, b.z))

\* C22: for eye # center and up not parallel to eye - center, the upper-left
\* 3x3 block of msh_look_at(eye, center, up) has mutually orthogonal unit
\* rows x, y, z with z along eye - center and cross(x, y) = z, its last row
\* is (0,0,0,1), and msh_mat4_vec3_mul takes the eye, as a point, to (0,0,0).
LookAtIsRigidView ==
  (/\ fn = "look_at"
   /\ arg[1] # arg[2]
   /\ ~IsZeroVec(Cross(arg[3], [x |-> Sub(arg[1].x, arg[2].x), y |-> Sub(arg[1].y, arg[2].y),
                                 z |-> Sub(arg[1].z, arg[2].z)])))
    =>
    /\ \A i, j \in 0..2 :
         DotProduct(Row3(ret, i), Row3(ret, j)) = IF i = j THEN F(1) ELSE F(0)
    /\ SameDirection(Row3(ret, 2), [x |-> Sub(arg[1].x, arg[2].x),
                                     y |-> Sub(arg[1].y, arg[2].y),
                                     z |-> Sub(arg[1].z, arg[2].z)])
    /\ Cross(Row3(ret, 0), Row3(ret, 1)) = Row3(ret, 2)
    /\ ret[3] = F(0) /\ ret[7] = F(0) /\ ret[11] = F(0) /\ ret[15] = F(1)
    /\ msh_mat4_vec3_mul(ret, arg[1], 1) = msh_vec3(0, 0, 0)

\* C22 witness: a camera away from the axes whose up vector is neither
\* parallel nor orthogonal to its view direction.
LookAtIsRigidViewWitness ==
  /\ fn = "look_at"
  /\ arg = <<msh_vec3(2, 3, 3), msh_vec3(1, 1, 1), msh_vec3(3, 0, 3)>>
  /\ DotProduct(arg[3], Row3(ret, 2)) # F(0)
  /\ AllFinite(ret)
  /\ \A i \in 12..14 : ret[i] # F(0)
  /\ cur = ret

\* the Hamilton product of a and b from its vector form: the real part is
\* a.w b.w - <a.im, b.im>, the imaginary part a.im x b.im + a.w b.im + b.w a.im
Hamilton(a, b) ==
  msh_quat(Add(Cross(a, b).x, Add(Mul(a.w, b.x), Mul(b.w, a.x))),
           Add(Cross(a, b).y, Add(Mul(a.w, b.y), Mul(b.w, a.y))),
           Add(Cross(a, b).z, Add(Mul(a.w, b.z), Mul(b.w, a.z))),
           Sub(Mul(a.w, b.w), DotProduct(a, b)))

\* the units i, j, k
UnitI == msh_quat(F(1), F(0), F(0), F(0))

UnitJ == msh_quat(F(0), F(1), F(0), F(0))

UnitK == msh_quat(F(0), F(0), F(1), F(0))

\* msh_quat_mul is the Hamilton product: the identity is a two-sided unit,
\* the units multiply as i j = k, j k = i, k i = j, i i = j j = k k = -1, and
\* the product is associative
MulIsHamilton ==
  fn = "quat_mul" =>
    /\ ret = Hamilton(arg[1], arg[2])
    /\ msh_quat_mul(arg[1], msh_quat_identity) = arg[1]
    /\ msh_quat_mul(msh_quat_identity, arg[1]) = arg[1]
    /\ (arg[1] = UnitI /\ arg[2] = UnitJ) => ret = UnitK
    /\ (arg[1] = UnitJ /\ arg[2] = UnitK) => ret = UnitI
    /\ (arg[1] = UnitK /\ arg[2] = UnitI) => ret = UnitJ
    /\ (arg[1] \in {UnitI, UnitJ, UnitK} /\ arg[2] = arg[1]) => ret = Negated(msh_quat_identity)
    /\ \A c \in {UnitI, UnitK, msh_quat(F(2), F(-1), F(1), F(3))} :
         msh_quat_mul(ret, c) = msh_quat_mul(arg[1], msh_quat_mul(arg[2], c))

\* C23: msh_quat_mul is the Hamilton product on quaternions stored as
\* (x,y,z,w), with the identity a two-sided unit, the unit table and
\* associativity, and msh_quat_div(a, b) is msh_quat_mul(a,
\* msh_quat_inverse(b)), so that msh_quat_div(q, q) is the identity for
\* every non-zero q.
DivIsMulByInverse ==
  /\ MulIsHamilton
  /\ fn = "quat_div" =>
       /\ ret = msh_quat_mul(arg[1], msh_quat_inverse(arg[2]))
       /\ (arg[1] = arg[2] /\ ~IsZeroVec(arg[1])) => ret = msh_quat_identity

\* C25: msh_quat_from_euler_angles gives a rotation quaternion in the
\* storage order (x,y,z,w): a unit quaternion that, for pitch = yaw = roll
\* = 0, is the identity (0,0,0,1), whose msh_quat_to_mat3 is the identity
\* matrix.
FromEulerAnglesIsInStorageOrder ==
  fn = "quat_from_euler_angles" =>
    /\ IsUnit(ret)
    /\ (\A i \in 1..3 : sinf(arg[i]) = F(0) /\ cosf(arg[i]) = F(1)) =>
         /\ ret = msh_quat_identity
         /\ msh_quat_to_mat3(ret) = msh_mat3_identity

\* C26: for every matrix M built by msh_mat3_from_euler, those of two
\* non-zero angles and those with entry col[2].x equal to 1 or -1 among
\* them, msh_mat3_from_euler(msh_mat3_to_euler(M)) is M.
EulerRoundTrips ==
  fn = "mat3_to_euler" => msh_mat3_from_euler(ret) = arg[1]

(***************************************************************************)
(* The argument parser (msh_argparse).  A string is the sequence of its    *)
(* character codes without the terminating NUL; NULL is the null pointer.  *)
(* The sizes are macros a build may define; the ones here are small.       *)
(***************************************************************************)
MSH_MAX_NAME_LENGTH == 4

MSH_MAX_STR_LENGTH == 2

MSH_MAX_N_ARGS == 2

NULL == <<-1>>

\* the bytes name[], shorthand[3], message[] and position of a msh_arg_t, one
\* after the other as the struct lays them out, and the indices where the
\* last three start
OffShorthand == MSH_MAX_NAME_LENGTH

OffMessage == MSH_MAX_NAME_LENGTH + 3

OffPosition == MSH_MAX_NAME_LENGTH + 3 + MSH_MAX_STR_LENGTH

\* strcpy( bytes + off, s ): the characters of s and a NUL, written wherever
\* they fall
strcpy(bytes, off, s) ==
  [i \in DOMAIN bytes |->
     IF i >= off /\ i < off + Len(s) THEN s[i - off + 1]
     ELSE IF i = off + Len(s) THEN 0
     ELSE bytes[i]]

\* bytes + off read as a C string: the bytes up to the first NUL
RECURSIVE StringAt(_, _)
StringAt(bytes, off) ==
  IF off \notin DOMAIN bytes \/ bytes[off] = 0 THEN <<>>
  ELSE <<bytes[off]>> \o StringAt(bytes, off + 1)

RECURSIVE strcmp(_, _)
strcmp(a, b) ==
  IF a = <<>> /\ b = <<>> THEN 0
  ELSE IF a = <<>> THEN -1
  ELSE IF b = <<>> THEN 1
  ELSE IF a[1] # b[1] THEN (IF a[1] < b[1] THEN -1 ELSE 1)
  ELSE strcmp(Tail(a), Tail(b))

msh__arg_compare(arg_a, arg_b) ==
  IF arg_a.bytes[OffPosition] >= 0 /\ arg_b.bytes[OffPosition] >= 0 THEN 0
  ELSE IF arg_a.bytes[OffPosition] < 0 /\ arg_b.bytes[OffPosition] < 0
  THEN strcmp(StringAt(arg_a.bytes, 0), StringAt(arg_b.bytes, 0))
  ELSE IF arg_a.bytes[OffPosition] >= 0 /\ arg_b.bytes[OffPosition] < 0 THEN -1
  ELSE IF arg_a.bytes[OffPosition] < 0 /\ arg_b.bytes[OffPosition] >= 0 THEN 1
  ELSE 0

\* the orders qsort may leave the table in: it promises no order between
\* elements that compare equal
qsort(base) ==
  { [i \in 1..Len(base) |-> base[p[i]]] :
      p \in { q \in [1..Len(base) -> 1..Len(base)] :
                /\ \A i, j \in 1..Len(base) : i # j => q[i] # q[j]
                /\ \A i, j \in 1..Len(base) :
                     i < j => msh__arg_compare(base[q[i]], base[q[j]]) <= 0 } }

\* 45 is '-'
msh__are_options_valid(name, shorthand, message, argparse) ==
  IF argparse.n_args >= MSH_MAX_N_ARGS THEN 0
  ELSE IF Len(name) > MSH_MAX_NAME_LENGTH THEN 0
  ELSE IF shorthand # NULL
          /\ (Len(shorthand) # 2 /\ (IF shorthand = <<>> THEN 0 ELSE shorthand[1]) # 45)
       THEN 0
  ELSE IF message # NULL /\ Len(message) > MSH_MAX_STR_LENGTH THEN 0
  ELSE 1

\* the index in args of the first argument found, 0 for the null pointer
msh__find_argument(arg_name, shorthand, position, argparse) ==
  LET found == { i \in 1..argparse.n_args :
                   \/ arg_name # NULL /\ strcmp(StringAt(argparse.args[i].bytes, 0), arg_name) = 0
                   \/ /\ shorthand # NULL
                      /\ argparse.args[i].bytes[OffShorthand] # 0
                      /\ strcmp(StringAt(argparse.args[i].bytes, OffShorthand), shorthand) = 0
                   \/ position >= 0 /\ argparse.args[i].bytes[OffPosition] = position }
  IN  IF found = {} THEN 0 ELSE CHOOSE i \in found : \A k \in found : i <= k

\* the argument msh_add_<type>_argument writes into a slot: position first,
\* then the three strings
msh_add_argument_fill(name, shorthand, message, num_vals, n_required) ==
  LET blank == [i \in 0..OffPosition |-> 0]
      positioned == [blank EXCEPT ![OffPosition] = IF (IF name = <<>> THEN 0 ELSE name[1]) # 45
                                                  THEN n_required - 1 ELSE -1]
      named == strcpy(positioned, 0, name)
      shorthanded == IF shorthand # NULL
                     THEN strcpy([named EXCEPT ![OffShorthand] = 0], OffShorthand, shorthand)
                     ELSE [named EXCEPT ![OffShorthand] = 0]
      messaged == IF message # NULL
                  THEN strcpy([shorthanded EXCEPT ![OffMessage] = 0], OffMessage, message)
                  ELSE [shorthanded EXCEPT ![OffMessage] = 0]
  IN  [bytes |-> messaged, num_vals |-> num_vals, values |-> <<>>]

\* msh_add_<type>_argument: the value returned and the table afterwards
msh_add_argument(name, shorthand, message, values, num_vals, argparse) ==
  IF name = NULL \/ values = NULL THEN [ret |-> 0, argparse |-> argparse]
  ELSE IF msh__find_argument(name, shorthand, -1, argparse) # 0
  THEN [ret |-> 0, argparse |-> argparse]
  ELSE IF msh__are_options_valid(name, shorthand, message, argparse) = 0
  THEN [ret |-> 0, argparse |-> argparse]
  ELSE [ret |-> 1,
        argparse |->
          [args |-> Append(argparse.args,
                      msh_add_argument_fill(name, shorthand, message, num_vals,
                        IF (IF name = <<>> THEN 0 ELSE name[1]) # 45
                        THEN argparse.n_required + 1 ELSE argparse.n_required)),
           n_args |-> argparse.n_args + 1,
           n_required |-> IF (IF name = <<>> THEN 0 ELSE name[1]) # 45
                          THEN argparse.n_required + 1 ELSE argparse.n_required]]

msh_init_argparse == [args |-> <<>>, n_args |-> 0, n_required |-> 0]

\* msh__parse_<type>_argument from its j-th value on; argv[i] of the code is
\* argv[i + 1] here, and trace lists the elements of argv that were read:
\* probed for a '-', stored as a value or looked up as a name; values keeps
\* the tokens whose conversions cfunc stores
RECURSIVE msh__parse_argument(_, _, _, _, _, _)
msh__parse_argument(a, argc, argv, argv_index, j, trace) ==
  IF j >= a.num_vals
  THEN [ok |-> 1, a |-> a, argv_index |-> argv_index, trace |-> trace]
  ELSE IF argv_index + 1 >= argc
  THEN [ok |-> 0, a |-> a, argv_index |-> argv_index + 1, trace |-> trace]
  ELSE IF (IF argv[argv_index + 2] = <<>> THEN 0 ELSE argv[argv_index + 2][1]) = 45
  THEN [ok |-> 0, a |-> a, argv_index |-> argv_index + 1,
        trace |-> Append(trace, [index |-> argv_index + 1, as |-> "probe"])]
  ELSE msh__parse_argument([a EXCEPT !.values = Append(@, argv[argv_index + 2])],
                           argc, argv, argv_index + 1, j + 1,
                           Append(trace, [index |-> argv_index + 1, as |-> "value"]))

\* the second loop of msh_parse_arguments
RECURSIVE msh_parse_arguments_options(_, _, _, _, _)
msh_parse_arguments_options(argc, argv, argparse, argv_index, trace) ==
  IF argv_index >= argc
  THEN [ret |-> 1, argparse |-> argparse, trace |-> trace]
  ELSE LET cur_arg == msh__find_argument(argv[argv_index + 1], argv[argv_index + 1], -1,
                                         argparse)
       IN  IF cur_arg = 0
           THEN [ret |-> 0, argparse |-> argparse,
                 trace |-> Append(trace, [index |-> argv_index, as |-> "name"])]
           ELSE LET p == msh__parse_argument(argparse.args[cur_arg], argc, argv,
                                             argv_index, 0,
                                             Append(trace, [index |-> argv_index,
                                                            as |-> "name"]))
                IN  IF p.ok = 0
                    THEN [ret |-> 0,
                          argparse |-> [argparse EXCEPT !.args[cur_arg] = p.a],
                          trace |-> p.trace]
                    ELSE msh_parse_arguments_options(argc, argv,
                           [argparse EXCEPT !.args[cur_arg] = p.a],
                           p.argv_index + 1, p.trace)

\* the first loop of msh_parse_arguments from i on, then the second
RECURSIVE msh_parse_arguments_required(_, _, _, _, _, _)
msh_parse_arguments_required(argc, argv, argparse, i, argv_index, trace) ==
  IF i >= argparse.n_required
  THEN msh_parse_arguments_options(argc, argv, argparse, argv_index + 1, trace)
  ELSE LET p == msh__parse_argument(argparse.args[i + 1], argc, argv, argv_index, 0, trace)
       IN  IF p.ok = 0
           THEN [ret |-> 0, argparse |-> [argparse EXCEPT !.args[i + 1] = p.a],
                 trace |-> p.trace]
           ELSE msh_parse_arguments_required(argc, argv,
                  [argparse EXCEPT !.args[i + 1] = p.a], i + 1, p.argv_index, p.trace)

\* msh_parse_arguments on the table as qsort left it
msh_parse_arguments(argc, argv, sorted) ==
  msh_parse_arguments_required(argc, argv, sorted, 0, 0, <<>>)

(***************************************************************************)
(* A program that initialises a parser, adds arguments to it and parses a  *)
(* command line: cur is its msh_argparse_t                                 *)
(***************************************************************************)
\* a string of n characters: c, then 'x's
Pad(c, n) == [i \in 1..n |-> IF i = 1 THEN c ELSE 120]

ArgInit ==
  /\ cur = msh_init_argparse
  /\ fn = "init_argparse"
  /\ arg = <<>>
  /\ ret = 1
  /\ steps = 0

\* msh_add_<type>_argument( name, shorthand, message, values, num_vals, &cur )
AddArgument ==
  /\ fn \in {"init_argparse", "add_argument"}
  /\ \E call \in
       { <<<<105, 110>>, NULL, <<109>>, <<>>, 1>>,                \* "in"
         <<<<105, 111>>, NULL, NULL, <<>>, 2>>,                   \* "io"
         <<<<45, 45, 111>>, <<45, 111>>, <<109>>, <<>>, 1>>,      \* "--o", "-o"
         <<<<45, 45, 102>>, <<45, 102>>, NULL, <<>>, 0>>,         \* "--f", "-f"
         <<NULL, NULL, <<109>>, <<>>, 1>>,
         <<<<105, 110>>, NULL, <<109>>, NULL, 1>>,
         <<Pad(97, MSH_MAX_NAME_LENGTH), <<45, 97>>, <<109>>, <<>>, 1>>,
         <<Pad(45, MSH_MAX_NAME_LENGTH), <<45, 112>>, NULL, <<>>, 1>>,
         <<Pad(97, MSH_MAX_NAME_LENGTH + 1), NULL, NULL, <<>>, 1>>,
         <<<<45, 45, 103>>, <<97, 98>>, NULL, <<>>, 1>>,          \* "--g", "ab"
         <<<<45, 45, 104>>, <<45, 97, 98, 99>>, <<109>>, <<>>, 1>>, \* "--h", "-abc"
         <<<<45, 45, 105>>, <<97, 98, 99>>, NULL, <<>>, 1>>,      \* "--i", "abc"
         <<<<45, 45, 115>>, <<45>>, NULL, <<>>, 1>>,              \* "--s", "-"
         <<<<45, 45, 107>>, NULL, Pad(109, MSH_MAX_STR_LENGTH), <<>>, 1>>,
         <<<<110>>, NULL, Pad(109, MSH_MAX_STR_LENGTH), <<>>, 1>>,
         <<<<107>>, NULL, Pad(109, MSH_MAX_STR_LENGTH + 1), <<>>, 1>>,
         <<<<45, 45, 122>>, <<45, 111>>, NULL, <<>>, 1>> } :      \* "--z", "-o"
       LET r == msh_add_argument(call[1], call[2], call[3], call[4], call[5], cur)
       IN  /\ fn' = "add_argument"
           /\ arg' = <<call[1], call[2], call[3], call[4], call[5], cur>>
           /\ ret' = r.ret
           /\ cur' = r.argparse
  /\ UNCHANGED steps

\* msh_parse_arguments( argc, argv, &cur )
ParseArguments ==
  /\ fn \in {"init_argparse", "add_argument"}
  /\ \E sorted \in qsort(cur.args) :
     \E argv \in
       { <<<<112>>>>,
         <<<<112>>, <<49>>>>,
         <<<<112>>, <<49>>, <<50>>>>,
         <<<<112>>, <<49>>, <<50>>, <<51>>>>,
         <<<<112>>, <<45, 53>>>>,
         <<<<112>>, <<49>>, <<45, 45, 111>>, <<50>>>>,
         <<<<112>>, <<45, 45, 111>>, <<50>>, <<45, 45, 102>>>>,
         <<<<112>>, <<45, 45, 111>>>>,
         <<<<112>>, <<45, 45, 111>>, <<45, 102>>>>,
         <<<<112>>, <<49>>, <<50>>, <<45, 111>>, <<51>>>>,
         <<<<112>>, <<45, 45, 102>>, <<105, 110>>, <<51>>>>,
         <<<<112>>, <<122, 122>>>>,
         <<<<112>>, Pad(45, MSH_MAX_NAME_LENGTH), <<49>>>> } :
       LET r == msh_parse_arguments(Len(argv), argv, [cur EXCEPT !.args = sorted])
       IN  /\ fn' = "parse_arguments"
           /\ arg' = <<Len(argv), argv, cur>>
           /\ ret' = [value |-> r.ret, trace |-> r.trace]
           /\ cur' = r.argparse
  /\ UNCHANGED steps

ArgNext ==
  \/ AddArgument
  \/ ParseArguments

SpecArg == ArgInit /\ [][ArgNext]_vars

\* C27: an add that returns 1 was given a name that fits with its NUL in
\* name[MSH_MAX_NAME_LENGTH], a shorthand (if any) that is '-' followed by
\* one letter and so fits in shorthand[3], and a message (if any) that fits
\* with its NUL in message[MSH_MAX_STR_LENGTH]: no accepted add writes past
\* a buffer.
AcceptedStringsFit ==
  (fn = "add_argument" /\ ret = 1) =>
    /\ Len(arg[1]) + 1 <= MSH_MAX_NAME_LENGTH
    /\ arg[2] # NULL =>
         /\ Len(arg[2]) = 2
         /\ arg[2][1] = 45
         /\ arg[2][2] \in (65..90) \cup (97..122)
    /\ arg[3] # NULL => Len(arg[3]) + 1 <= MSH_MAX_STR_LENGTH

\* C28: after msh_init_argparse and any adds, n_required <= n_args <=
\* MSH_MAX_N_ARGS, the required arguments (name not starting with '-') hold
\* the positions 0..n_required-1, one each, and the others hold -1; an add
\* that returns 0 leaves the parser as it was.
TableIsConsistent ==
  fn \in {"init_argparse", "add_argument"} =>
    LET required == { i \in 1..cur.n_args : cur.args[i].bytes[0] # 45 }
    IN  /\ cur.n_required <= cur.n_args
        /\ cur.n_args <= MSH_MAX_N_ARGS
        /\ cur.n_args = Len(cur.args)
        /\ \A p \in 0..(cur.n_required - 1) :
             \E i \in required :
               /\ cur.args[i].bytes[OffPosition] = p
               /\ \A k \in required : cur.args[k].bytes[OffPosition] = p => k = i
        /\ \A i \in required : cur.args[i].bytes[OffPosition] \in 0..(cur.n_required - 1)
        /\ \A i \in 1..cur.n_args : i \notin required => cur.args[i].bytes[OffPosition] = -1
        /\ (fn = "add_argument" /\ ret = 0) => cur = arg[6]

\* the number of values the first i entries of a table take
RECURSIVE ValuesBefore(_, _)
ValuesBefore(args, i) ==
  IF i = 0 THEN 0 ELSE ValuesBefore(args, i - 1) + args[i].num_vals

\* C29: after the sort of msh_parse_arguments the first n_required entries
\* of the table are the required arguments in increasing position, and when
\* the parse succeeds the argument with position i holds the i-th group of
\* values of the command line.
RequiredValuesInOrder ==
  fn = "parse_arguments" =>
    /\ \A i \in 1..cur.n_required : cur.args[i].bytes[OffPosition] = i - 1
    /\ ret.value = 1 =>
         \A i \in 1..cur.n_required :
           cur.args[i].values =
             SubSeq(arg[2], 2 + ValuesBefore(cur.args, i - 1),
                            1 + ValuesBefore(cur.args, i))

\* the first characters of a buffer of size n at off, up to a NUL: the string
\* an argument was registered with when it fits the buffer
RECURSIVE Registered(_, _, _)
Registered(bytes, off, n) ==
  IF n = 0 \/ bytes[off] = 0 THEN <<>>
  ELSE <<bytes[off]>> \o Registered(bytes, off + 1, n - 1)

\* the n elements of argv after index at exist and none starts with '-'
HasValues(argv, at, n) ==
  \A k \in (at + 1)..(at + n) :
    /\ k < Len(argv)
    /\ (IF argv[k + 1] = <<>> THEN 0 ELSE argv[k + 1][1]) # 45

\* what the parse of the tokens from index at on should return, each token
\* in option position naming a registered argument that takes its values
RECURSIVE OptionsOutcome(_, _, _)
OptionsOutcome(args, argv, at) ==
  IF at >= Len(argv) THEN 1
  ELSE LET named == { i \in 1..Len(args) :
                        \/ Registered(args[i].bytes, 0, MSH_MAX_NAME_LENGTH) = argv[at + 1]
                        \/ /\ args[i].bytes[OffShorthand] # 0
                           /\ Registered(args[i].bytes, OffShorthand, 3) = argv[at + 1] }
       IN  IF named = {} THEN 0
           ELSE LET a == args[CHOOSE i \in named : \A k \in named : i <= k]
                IN  IF ~HasValues(argv, at, a.num_vals) THEN 0
                    ELSE OptionsOutcome(args, argv, at + a.num_vals + 1)

\* what the parse should return: the required arguments take their values
\* one after the other, then the options follow
ParseOutcome(args, n_required, argv) ==
  IF \E i \in 1..n_required :
       ~HasValues(argv, ValuesBefore(args, i - 1), args[i].num_vals)
  THEN 0
  ELSE OptionsOutcome(args, argv, ValuesBefore(args, n_required) + 1)

\* C30: msh_parse_arguments returns 0 when an argument being parsed lacks
\* value tokens before the end of argv or before a token starting with '-',
\* or when a token in option position matches no registered name or
\* shorthand, and 1 otherwise; it reads no element of argv at or beyond
\* argc, and no token stored as a value is looked up as a name.
ParseReturnsByTokens ==
  fn = "parse_arguments" =>
    /\ ret.value = ParseOutcome(cur.args, cur.n_required, arg[2])
    /\ \A e \in 1..Len(ret.trace) : ret.trace[e].index < arg[1]
    /\ \A e, f \in 1..Len(ret.trace) :
         ret.trace[e].index = ret.trace[f].index =>
           ~(ret.trace[e].as = "value" /\ ret.trace[f].as = "name")

(***************************************************************************)
(* Calls made concurrently: each thread calls msh_mat2_inverse or          *)
(* msh_vec4_normalize and runs the statements of its call one at a time,   *)
(* interleaved with the statements of the other threads.  cur.threads is   *)
(* what each thread holds, cur.frames the automatic storage of the calls.  *)
(***************************************************************************)
NumThreads == 2

\* the parameters and the locals denom and o (mi) of a call are automatic:
\* every call in progress has storage of its own (and not, as static locals
\* would be, one storage for all the calls of a function)
FrameOfFirstThread(t) == 1

Frame(t) == t

ThreadInit ==
  /\ cur = [threads |-> [t \in 1..NumThreads |->
                           [pc |-> "idle", op |-> "none", args |-> <<>>, result |-> <<>>]],
            frames |-> [op \in {"mat2_inverse", "vec4_normalize"} |->
                         [f \in 1..NumThreads |-> [v |-> <<>>, denom |-> F(0), o |-> <<>>]]]]
  /\ fn = "input"
  /\ arg = <<>>
  /\ ret = <<>>
  /\ steps = 0

\* thread t calls a function: the argument is passed by value
ThreadCall ==
  /\ \E t \in 1..NumThreads :
     \E call \in { <<"mat2_inverse", Mat(<<1, 2, 3, 4>>)>>,
                   <<"mat2_inverse", Mat(<<2, 0, 0, 2>>)>>,
                   <<"vec4_normalize", msh_vec4(0, 3, 0, 4)>> } :
       /\ cur.threads[t].pc = "idle"
       /\ cur' = [cur EXCEPT !.threads[t] = [pc |-> "denom", op |-> call[1],
                                             args |-> call[2], result |-> <<>>],
                             !.frames[call[1]][Frame(t)].v = call[2]]
       /\ fn' = call[1]
       /\ arg' = <<t>>
  /\ UNCHANGED <<ret, steps>>

\* msh_scalar_t denom = 1.0f / ...;
ThreadDenom ==
  /\ \E t \in 1..NumThreads :
       /\ cur.threads[t].pc = "denom"
       /\ LET v == cur.frames[cur.threads[t].op][Frame(t)].v
          IN  cur' = [cur EXCEPT
                !.threads[t].pc = "o",
                !.frames[cur.threads[t].op][Frame(t)].denom =
                   IF cur.threads[t].op = "mat2_inverse"
                   THEN Div(F(1), Sub(Mul(v[0], v[3]), Mul(v[2], v[1])))
                   ELSE Div(F(1), Sqrt(Add(Add(Add(Mul(v.x, v.x), Mul(v.y, v.y)),
                                               Mul(v.z, v.z)), Mul(v.w, v.w))))]
       /\ fn' = cur.threads[t].op
       /\ arg' = <<t>>
  /\ UNCHANGED <<ret, steps>>

\* the assignments to mi of msh_mat2_inverse, to o of msh_vec4_normalize
ThreadOut ==
  /\ \E t \in 1..NumThreads :
       /\ cur.threads[t].pc = "o"
       /\ LET v == cur.frames[cur.threads[t].op][Frame(t)].v
              denom == cur.frames[cur.threads[t].op][Frame(t)].denom
          IN  cur' = [cur EXCEPT
                !.threads[t].pc = "return",
                !.frames[cur.threads[t].op][Frame(t)].o =
                   IF cur.threads[t].op = "mat2_inverse"
                   THEN msh_mat2_inverse_from_denom(v, denom)
                   ELSE [x |-> Mul(v.x, denom), y |-> Mul(v.y, denom),
                         z |-> Mul(v.z, denom), w |-> Mul(v.w, denom)]]
       /\ fn' = cur.threads[t].op
       /\ arg' = <<t>>
  /\ UNCHANGED <<ret, steps>>

\* return mi; return o;
ThreadReturn ==
  /\ \E t \in 1..NumThreads :
       /\ cur.threads[t].pc = "return"
       /\ cur' = [cur EXCEPT !.threads[t].pc = "idle",
                             !.threads[t].result = cur.frames[cur.threads[t].op][Frame(t)].o]
       /\ fn' = "return"
       /\ arg' = <<t>>
       /\ ret' = [op |-> cur.threads[t].op, args |-> cur.threads[t].args,
                  result |-> cur.frames[cur.threads[t].op][Frame(t)].o]
  /\ UNCHANGED steps

ThreadNext ==
  \/ ThreadCall
  \/ ThreadDenom
  \/ ThreadOut
  \/ ThreadReturn

SpecThread == ThreadInit /\ [][ThreadNext]_vars

\* C24: in every interleaving of the statements of calls made from several
\* threads, a call that returns gives the value the function has when run
\* alone on the arguments the caller passed, so a repeated call gives the
\* same result again.
CallsAreReentrant ==
  fn = "return" =>
    ret.result = IF ret.op = "mat2_inverse" THEN msh_mat2_inverse(ret.args)
                 ELSE msh_vec4_normalize(ret.args)

\* a call returned while another thread was in the middle of a call of the
\* same function on a different argument
CallsAreReentrantWitness ==
  /\ fn = "return"
  /\ \E t, u \in 1..NumThreads :
       /\ arg = <<t>>
       /\ u # t
       /\ cur.threads[u].pc \in {"o", "return"}
       /\ cur.threads[u].op = ret.op
       /\ cur.threads[u].args # ret.args
       /\ cur.threads[t].result = ret.result
       /\ ret.result = IF ret.op = "mat2_inverse" THEN msh_mat2_inverse(ret.args)
                       ELSE msh_vec4_normalize(ret.args)

====
